---- MODULE Spec2Model ----
(***************************************************************************)
(* A model of nlp_to_phenome.py: the span algebra (BasicAnn), the          *)
(* reconciliation engine (CustomisedRecoginiser), the dimension engine     *)
(* (LabelModel) and the performance counters (LabelPerformance).           *)
(*                                                                         *)
(* Each component has its own specification (SpecSpan, SpecPerf,           *)
(* SpecValidate, SpecTfidf, SpecLoad); a specification leaves the          *)
(* variables of the other components at their idle values.                 *)
(***************************************************************************)
EXTENDS Integers, Sequences, FiniteSets, TLC

VARIABLES
    \* SpecSpan: two spans and the results of the calls made on them
    spanA, spanB, spanRes, spanDone,
    \* SpecPerf: one LabelPerformance record
    lp,
    \* the concept mapping table and one annotated document (CustomisedRecoginiser)
    concept_mapping, annotations, phenotypes, sentences,
    \* SpecValidate: the locals and arguments of CustomisedRecoginiser.validate
    vpc, learnt_anns, label2performance, matched_ann_ids, la_idx, gold_n,
    \* SpecValidate, history: gold entities seen per label, and for each
    \* detected annotation the number of gold entities it was credited to
    gold_seen, credit,
    \* LabelModel: the fields of one object, the list get_top_tfidf_dimensions
    \* logs (tfidf_df) and the exception a call ended with (lm_error)
    context_dimensions, label_dimensions, label2freq, tp_labels, fp_labels,
    tps, fps, tfidf_dims, tfidf_df, lm_error,
    lm_label, max_dimensions, lbl_one_dimension,
    \* SpecLoad: the gold document of the file (has_gold: the gold file exists)
    \* and the locals of LabelModel.load_data
    has_gold, gold_entities, ld_pc, ld_anns, ld_idx, not_matched_gds,
    X, Y, false_negatives, multiple_true_positives,
    \* SpecLearn: the configured _min_sample_size, the classifier file, and the
    \* arguments and locals of decision_tree_learning and predict_use_model
    min_sample_size, ml_model_file, output_given, learn_pc, learner,
    pr_X, pr_Y, pr_fns, pr_mtp, pr_pc, all_true, P, pr_idx,
    \* SpecDoc: the last call made on the CustomisedRecoginiser, its
    \* arguments and its outcome
    q_op, q_arg, q_res,
    \* SpecEncode: the last call of encode_ann, its arguments and its result
    enc_pc, enc_ann, enc_ctx, enc_res,
    \* SpecTfidf, history: the lower-cased values add_label_dimension was
    \* called with, and the number of add_context_dimension calls per
    \* lower-cased value
    dim_calls,
    \* SpecTfidf: the position of collect_tfidf_dimensions, its locals tp_freq
    \* and fp_freq, and `matched` of the mention whose context is being added
    collect_pc, tp_freq, fp_freq, coll_matched

spanVars == <<spanA, spanB, spanRes, spanDone>>
perfVars == <<lp>>
docVars == <<concept_mapping, annotations, phenotypes, sentences>>
lmVars == <<context_dimensions, label_dimensions, label2freq, tp_labels, fp_labels,
            tps, fps, tfidf_dims, tfidf_df, lm_error>>
lmCfgVars == <<lm_label, max_dimensions, lbl_one_dimension>>
loadVars == <<has_gold, gold_entities, ld_pc, ld_anns, ld_idx, not_matched_gds,
              X, Y, false_negatives, multiple_true_positives>>
learnVars == <<min_sample_size, ml_model_file, output_given, learn_pc, learner,
               pr_X, pr_Y, pr_fns, pr_mtp, pr_pc, all_true, P, pr_idx>>
queryVars == <<q_op, q_arg, q_res>>
encVars == <<enc_pc, enc_ann, enc_ctx, enc_res>>
callVars == <<dim_calls>>
collectVars == <<collect_pc, tp_freq, fp_freq, coll_matched>>
validateVars == <<vpc, learnt_anns, label2performance, matched_ann_ids, la_idx,
                  gold_n, gold_seen, credit>>

\* --------------------------------------------------------------------------
\* Bounds
\* --------------------------------------------------------------------------

\* character offsets of a document run over 0..MaxOff
MaxOff == 2
\* cap on each TP/FN/FP counter of the stand-alone LabelPerformance record
MaxCount == 4
\* largest increment k passed to increase_*(k)
MaxK == 2
\* cap on the frequency of a context dimension
MaxFreq == 2
\* cap on the true-positive and false-positive totals of the collection pass
MaxTP == 2
\* largest k passed to get_top_tfidf_dimensions
MaxDims == 2
\* concept mentions per document
MaxAnns == 1
\* gold entities per document
MaxGold == 2
\* phenotype mentions per document
MaxPhe == 1
\* sentence spans per document
MaxSent == 1
\* training or test rows passed to decision_tree_learning / predict_use_model
MaxRows == 2
\* largest configured min_sample_size
MaxMin == 3
\* largest fns and mtp passed to predict_use_model
MaxMissed == 1
\* context mentions passed to encode_ann
MaxCtx == 2
\* phenotype mentions per document of SpecSelect
MaxSelPhe == 2

\* --------------------------------------------------------------------------
\* BasicAnn: spans, overlap, is_larger
\* --------------------------------------------------------------------------

\* every span with start <= end over the offsets of the model
Spans == {sp \in [start : 0..MaxOff, end : 0..MaxOff] : sp.start <= sp.end}

\* BasicAnn.overlap: self's start or self's end lies in other's closed interval
overlap(self, other_ann) ==
    \/ (other_ann.start <= self.start /\ self.start <= other_ann.end)
    \/ (other_ann.start <= self.end /\ self.end <= other_ann.end)

\* BasicAnn.is_larger: self contains other and the intervals differ
is_larger(self, other_ann) ==
    /\ self.start <= other_ann.start
    /\ self.end >= other_ann.end
    /\ ~(self.start = other_ann.start /\ self.end = other_ann.end)

\* --------------------------------------------------------------------------
\* SpecSpan: the two calls A.overlap(B), B.overlap(A) and A.is_larger(B)
\* --------------------------------------------------------------------------

NoSpan == [start |-> 0, end |-> 0]
NoSpanRes == [ab |-> FALSE, ba |-> FALSE, larger |-> FALSE]

SpanIdle ==
    /\ spanA = NoSpan
    /\ spanB = NoSpan
    /\ spanRes = NoSpanRes
    /\ spanDone = {}

\* A.overlap(B)
CallOverlapAB ==
    /\ "ab" \notin spanDone
    /\ spanRes' = [spanRes EXCEPT !.ab = overlap(spanA, spanB)]
    /\ spanDone' = spanDone \cup {"ab"}
    /\ UNCHANGED <<spanA, spanB>>

\* B.overlap(A)
CallOverlapBA ==
    /\ "ba" \notin spanDone
    /\ spanRes' = [spanRes EXCEPT !.ba = overlap(spanB, spanA)]
    /\ spanDone' = spanDone \cup {"ba"}
    /\ UNCHANGED <<spanA, spanB>>

\* A.is_larger(B)
CallIsLarger ==
    /\ "larger" \notin spanDone
    /\ spanRes' = [spanRes EXCEPT !.larger = is_larger(spanA, spanB)]
    /\ spanDone' = spanDone \cup {"larger"}
    /\ UNCHANGED <<spanA, spanB>>

\* --------------------------------------------------------------------------
\* LabelPerformance
\* --------------------------------------------------------------------------

\* a number as the fraction n/d (d > 0); precision, recall and f1 are floats
Num(n, d) == [n |-> n, d |-> d]
MinusOne == Num(-1, 1)
Zero == Num(0, 1)
NumEq(x, y) == x.n * y.d = y.n * x.d
NumLeq(x, y) == x.n * y.d <= y.n * x.d

\* LabelPerformance.__init__
FreshPerformance == [tp |-> 0, fn |-> 0, fp |-> 0]

\* precision with the undefined case tested on tp alone
precision_tp_only(p) ==
    IF p.tp = 0 THEN MinusOne ELSE Num(p.tp, p.tp + p.fp)

\* LabelPerformance.precision
precision(p) ==
    IF p.tp + p.fp = 0 THEN MinusOne ELSE Num(p.tp, p.tp + p.fp)

\* LabelPerformance.recall
recall(p) ==
    IF p.tp + p.fn = 0 THEN MinusOne ELSE Num(p.tp, p.tp + p.fn)

\* LabelPerformance.f1: 2 / (1/precision + 1/recall) unless undefined
f1(p) ==
    LET pr == precision(p)
        rc == recall(p)
    IN  IF NumEq(pr, MinusOne) \/ NumEq(rc, MinusOne) \/ NumEq(pr, Zero) \/ NumEq(rc, Zero)
        THEN MinusOne
        ELSE Num(2 * pr.n * rc.n, pr.d * rc.n + rc.d * pr.n)

\* LabelPerformance.increase_true_positive(k)
increase_true_positive(p, k) == [p EXCEPT !.tp = @ + k]

\* LabelPerformance.increase_false_negative(k)
increase_false_negative(p, k) == [p EXCEPT !.fn = @ + k]

\* LabelPerformance.increase_false_positive(k)
increase_false_positive(p, k) == [p EXCEPT !.fp = @ + k]

\* --------------------------------------------------------------------------
\* SpecPerf: calls on one LabelPerformance record
\* --------------------------------------------------------------------------

PerfIdle == lp = FreshPerformance

CallIncreaseTruePositive ==
    \E k \in 1..MaxK :
        /\ lp.tp + k <= MaxCount
        /\ lp' = increase_true_positive(lp, k)

CallIncreaseFalseNegative ==
    \E k \in 1..MaxK :
        /\ lp.fn + k <= MaxCount
        /\ lp' = increase_false_negative(lp, k)

CallIncreaseFalsePositive ==
    \E k \in 1..MaxK :
        /\ lp.fp + k <= MaxCount
        /\ lp' = increase_false_positive(lp, k)

\* --------------------------------------------------------------------------
\* Annotations, documents and the concept mapping
\* --------------------------------------------------------------------------

Types == {"stroke", "tia"}
Negations == {"Affirmed", "Negated"}
CUIs == {"C1", "C3"}
Strs == {"s"}

\* the elements of a list, as `x in list` sees them
Elems(seq) == {seq[i] : i \in DOMAIN seq}

\* str.lower
lower(v) == CASE v = "A" -> "a" [] v = "B" -> "b" [] OTHER -> v

\* sequences over S of length at most n
SeqUpTo(S, n) == UNION {[1..k -> S] : k \in 0..n}

\* EDIRAnn.label: the type, prefixed neg_ when negated
label(e) == IF e.negated THEN "neg_" \o e.type ELSE e.type

\* a Mention record of the annotation file, before load_anns gives it an id
RawMentions ==
    {m \in [str : Strs, start : 0..MaxOff, end : 0..MaxOff,
            negation : Negations, cui : CUIs] : m.start <= m.end}

\* SemEHRAnnDoc.load_anns, Mention branch: the n-th mention gets id cui-n
load_mentions(raw) ==
    [i \in 1..Len(raw) |->
        [str |-> raw[i].str, start |-> raw[i].start, end |-> raw[i].end,
         negation |-> raw[i].negation, cui |-> raw[i].cui, id |-> <<"cui", i>>]]

\* an entry of the mapping file: label t and its texts, each text a concept
\* id (the first 8 characters) and a preferred term (the second tab field)
MappingTables ==
    { << [t |-> "stroke", texts |-> << [cui |-> "C1", pref |-> "p1"],
                                       [cui |-> "C2", pref |-> "p2"] >>],
         [t |-> "tia",    texts |-> << [cui |-> "C1", pref |-> "p1"] >>] >> }

\* the (concept id, label) pairs of the table in the order the two loops of
\* load_concept_mappings visit them
RECURSIVE MappingPairs(_)
MappingPairs(table) ==
    IF table = <<>> THEN <<>>
    ELSE [k \in 1..Len(Head(table).texts) |->
             [c |-> Head(table).texts[k].cui, t |-> Head(table).t]]
         \o MappingPairs(Tail(table))

\* the labels appended to concept2types[c], in order
RECURSIVE TypesOf(_, _)
TypesOf(pairs, c) ==
    IF pairs = <<>> THEN <<>>
    ELSE (IF Head(pairs).c = c THEN <<Head(pairs).t>> ELSE <<>>)
         \o TypesOf(Tail(pairs), c)

\* Concept2Mapping.load_concept_mappings: concept id -> list of labels
load_concept_mappings(table) ==
    LET pairs == MappingPairs(table)
    IN  [c \in {pairs[i].c : i \in DOMAIN pairs} |-> TypesOf(pairs, c)]

\* CustomisedRecoginiser.concept2label
concept2label == load_concept_mappings(concept_mapping)

\* the EDIRAnn objects get_mapped_labels derives from one concept mention
MappedOf(ann, c2l) ==
    IF ann.cui \in DOMAIN c2l
    THEN [k \in 1..Len(c2l[ann.cui]) |->
             [str |-> ann.str, start |-> ann.start, end |-> ann.end,
              type |-> c2l[ann.cui][k],
              negated |-> (ann.negation = "Negated"),
              id |-> ann.id]]
    ELSE <<>>

\* CustomisedRecoginiser.get_mapped_labels
RECURSIVE get_mapped_labels(_, _)
get_mapped_labels(anns, c2l) ==
    IF anns = <<>> THEN <<>>
    ELSE MappedOf(Head(anns), c2l) \o get_mapped_labels(Tail(anns), c2l)

\* a Phenotype record of the annotation file
RawPhenotypes ==
    {m \in [str : Strs, start : 0..MaxOff, end : 0..MaxOff,
            negation : Negations, minor_type : Types] : m.start <= m.end}

\* SemEHRAnnDoc.load_anns, Phenotype branch: the n-th phenotype gets id phe-n
load_phenotypes(raw) ==
    [i \in 1..Len(raw) |->
        [str |-> raw[i].str, start |-> raw[i].start, end |-> raw[i].end,
         negation |-> raw[i].negation, minor_type |-> raw[i].minor_type,
         id |-> <<"phe", i>>]]

\* SemEHRAnnDoc.load_anns, Sentence branch: the n-th sentence gets id sent-n
load_sentences(raw) ==
    [i \in 1..Len(raw) |->
        [str |-> "Sentence", start |-> raw[i].start, end |-> raw[i].end,
         id |-> <<"sent", i>>]]

\* label.replace('neg_', '')
strip_neg(l) == IF \E t \in Types : l = "neg_" \o t
                THEN CHOOSE t \in Types : l = "neg_" \o t
                ELSE l

\* label.startswith('neg_')
starts_neg(l) == \E t \in Types : l = "neg_" \o t

\* get_anns_by_label: the polarity of mention a agrees with the label
polarity_matches(l, a) ==
    \/ (starts_neg(l) /\ a.negation = "Negated")
    \/ (~starts_neg(l) /\ a.negation # "Negated")

\* get_anns_by_label, first loop: the concept mentions mapped to the label's
\* type, not ignored, of the label's polarity
selected_concepts(anns, c2l, l, ignore_mappings) ==
    LET keep(a) ==
            /\ a.cui \in DOMAIN c2l
            /\ a.cui \notin ignore_mappings
            /\ strip_neg(l) \in Elems(c2l[a.cui])
            /\ polarity_matches(l, a)
    IN  SelectSeq(anns, keep)

\* get_anns_by_label, loop over `anns + phenotypes` for the phenotype a: from
\* position i on, with the annotations to remove collected so far
RECURSIVE scan_overlaps(_, _, _, _)
scan_overlaps(list, a, i, smaller) ==
    IF i > Len(list) THEN [overlaped |-> FALSE, smaller |-> smaller]
    ELSE IF overlap(list[i], a)
         THEN IF is_larger(a, list[i])
              THEN scan_overlaps(list, a, i + 1, Append(smaller, list[i]))
              ELSE [overlaped |-> TRUE, smaller |-> smaller]
         ELSE scan_overlaps(list, a, i + 1, smaller)

\* get_anns_by_label, loop over self.phenotypes from position i on: the
\* phenotypes kept and the annotations marked smaller_to_remove
RECURSIVE select_phenotypes(_, _, _, _, _, _, _)
select_phenotypes(phes, i, anns, kept, smaller, l, ignore_mappings) ==
    IF i > Len(phes) THEN [phenotypes |-> kept, smaller |-> smaller]
    ELSE LET a == phes[i]
             considered ==
                 /\ a.minor_type = strip_neg(l)
                 /\ lower(a.str) \notin {lower(x) : x \in ignore_mappings}
                 /\ polarity_matches(l, a)
             r == scan_overlaps(anns \o kept, a, 1, smaller)
         IN  IF ~considered
             THEN select_phenotypes(phes, i + 1, anns, kept, smaller, l, ignore_mappings)
             ELSE select_phenotypes(phes, i + 1, anns,
                                    IF r.overlaped THEN kept ELSE Append(kept, a),
                                    r.smaller, l, ignore_mappings)

\* CustomisedRecoginiser.get_anns_by_label(label, ignore_mappings)
get_anns_by_label(anns_all, phes, c2l, l, ignore_mappings) ==
    LET anns == selected_concepts(anns_all, c2l, l, ignore_mappings)
        r == select_phenotypes(phes, 1, anns, <<>>, <<>>, l, ignore_mappings)
        stays(o) == o \notin Elems(r.smaller)
    IN  SelectSeq(anns, stays) \o SelectSeq(r.phenotypes, stays)

\* CustomisedRecoginiser.get_ann_sentence: position in self.sentences of the
\* first sentence with ann.overlap(s); 0 stands for None
get_ann_sentence(sents, ann) ==
    LET S == {i \in DOMAIN sents : overlap(ann, sents[i])}
    IN  IF S = {} THEN 0 ELSE CHOOSE i \in S : \A j \in S : i <= j

\* CustomisedRecoginiser.get_previous_sentences(ann, include_self=True), for
\* an ann that has a sentence
get_previous_sentences(sents, ann) ==
    LET sent == sents[get_ann_sentence(sents, ann)]
        before(x) == x.start < sent.start
    IN  SelectSeq(sents, before) \o <<sent>>

\* CustomisedRecoginiser.get_sent_anns(sent, ann_ignore): the concept
\* mentions, then the phenotypes, that overlap sent and that ann_ignore does
\* not overlap
get_sent_anns(anns_all, phes, sent, ann_ignore) ==
    LET keep(a) == overlap(a, sent) /\ ~overlap(ann_ignore, a)
    IN  [umls |-> SelectSeq(anns_all, keep), phenotype |-> SelectSeq(phes, keep)]

\* CustomisedRecoginiser.get_prior_anns(ann), for an ann that has a sentence:
\* the annotations of the last of get_previous_sentences(ann)
get_prior_anns(anns_all, phes, sents, ann) ==
    LET prev == get_previous_sentences(sents, ann)
    IN  get_sent_anns(anns_all, phes, prev[Len(prev)], ann)

DocIdle ==
    /\ concept_mapping = <<>>
    /\ annotations = <<>>
    /\ phenotypes = <<>>
    /\ sentences = <<>>

\* --------------------------------------------------------------------------
\* SpecDoc: calls on one CustomisedRecoginiser
\* --------------------------------------------------------------------------

\* CustomisedRecoginiser.get_customised_phenotypes
get_customised_phenotypes(phes) ==
    [i \in 1..Len(phes) |->
        [str |-> phes[i].str, start |-> phes[i].start, end |-> phes[i].end,
         type |-> phes[i].minor_type,
         negated |-> (phes[i].negation = "Negated"),
         id |-> phes[i].id]]

\* CustomisedRecoginiser.get_combined_anns
get_combined_anns(anns_all, phes, c2l) ==
    LET mapped == get_mapped_labels(anns_all, c2l)
        free(ann) == ~\E k \in DOMAIN mapped : overlap(ann, mapped[k])
    IN  mapped \o SelectSeq(get_customised_phenotypes(phes), free)

\* the value a call returned, None, or the exception it raised
Returned(v) == [kind |-> "value", value |-> v]
ReturnedNone == [kind |-> "None", value |-> <<>>]
Raised(e) == [kind |-> e, value |-> <<>>]

\* CustomisedRecoginiser.get_same_sentence_anns(ann)
get_same_sentence_anns(anns_all, phes, sents, ann) ==
    IF get_ann_sentence(sents, ann) = 0
    THEN ReturnedNone
    ELSE Returned(get_sent_anns(anns_all, phes, sents[get_ann_sentence(sents, ann)], ann))

\* the labels asked of get_anns_by_label
QueryLabels == Types \cup {"neg_" \o t : t \in Types}

\* the mentions of the document: concept mentions and phenotypes
Mentions == Elems(annotations) \cup Elems(phenotypes)

QueryIdle ==
    /\ q_op = "none"
    /\ q_arg = <<>>
    /\ q_res = ReturnedNone

CallGetMappedLabels ==
    /\ q_op' = "get_mapped_labels"
    /\ q_arg' = <<>>
    /\ q_res' = Returned(get_mapped_labels(annotations, concept2label))
    /\ UNCHANGED docVars

CallGetCombinedAnns ==
    /\ q_op' = "get_combined_anns"
    /\ q_arg' = <<>>
    /\ q_res' = Returned(get_combined_anns(annotations, phenotypes, concept2label))
    /\ UNCHANGED docVars

CallGetAnnsByLabel ==
    /\ \E l \in QueryLabels :
        /\ q_arg' = <<l>>
        /\ q_res' = Returned(get_anns_by_label(annotations, phenotypes,
                                               concept2label, l, {}))
    /\ q_op' = "get_anns_by_label"
    /\ UNCHANGED docVars

CallGetAnnSentence ==
    /\ \E ann \in Mentions :
        /\ q_arg' = <<ann>>
        /\ q_res' = IF get_ann_sentence(sentences, ann) = 0
                    THEN ReturnedNone
                    ELSE Returned(sentences[get_ann_sentence(sentences, ann)])
    /\ q_op' = "get_ann_sentence"
    /\ UNCHANGED docVars

CallGetSameSentenceAnns ==
    /\ \E ann \in Mentions :
        /\ q_arg' = <<ann>>
        /\ q_res' = get_same_sentence_anns(annotations, phenotypes, sentences, ann)
    /\ q_op' = "get_same_sentence_anns"
    /\ UNCHANGED docVars

\* get_prior_anns(ann): get_previous_sentences returns None for an ann
\* without a sentence, and sents[-1:] then raises a TypeError
CallGetPriorAnns ==
    /\ \E ann \in Mentions :
        /\ q_arg' = <<ann>>
        /\ q_res' = IF get_ann_sentence(sentences, ann) = 0
                    THEN Raised("TypeError")
                    ELSE Returned(get_prior_anns(annotations, phenotypes, sentences, ann))
    /\ q_op' = "get_prior_anns"
    /\ UNCHANGED docVars

\* --------------------------------------------------------------------------
\* CustomisedRecoginiser.validate
\* --------------------------------------------------------------------------

\* a gold entity as EDIRDoc.get_ess_entities builds it, before its id is set
GoldOptions ==
    {g \in [str : Strs, start : 0..MaxOff, end : 0..MaxOff,
            type : Types, negated : BOOLEAN] : g.start <= g.end}

\* get_ess_entities: the entity appended n-th (from 0) gets id n
gold_entity(g, n) ==
    [str |-> g.str, start |-> g.start, end |-> g.end,
     type |-> g.type, negated |-> g.negated, id |-> n]

\* label2performance[l], created fresh when l is not yet a key
performance_of(l2p, l) ==
    IF l \in DOMAIN l2p THEN l2p[l] ELSE FreshPerformance

\* label2performance with the record of l replaced by p
with_performance(l2p, l, p) ==
    [x \in DOMAIN l2p \cup {l} |-> IF x = l THEN p ELSE l2p[x]]

\* validate, inner loop: index of the first learnt annotation with the gold
\* entity's label that overlaps it (la.overlap(ga)), 0 when there is none
first_match(learnt, ga) ==
    LET S == {i \in DOMAIN learnt :
                 label(learnt[i]) = label(ga) /\ overlap(learnt[i], ga)}
    IN  IF S = {} THEN 0 ELSE CHOOSE i \in S : \A j \in S : i <= j

\* validate_gold without the false-negative branch
validate_gold_no_fn(l2p, learnt, ga) ==
    LET l == label(ga)
        performance == performance_of(l2p, l)
    IN  IF first_match(learnt, ga) # 0
        THEN with_performance(l2p, l, increase_true_positive(performance, 1))
        ELSE with_performance(l2p, l, performance)

\* validate, body of the loop over gold_anns: the performance records after ga
validate_gold(l2p, learnt, ga) ==
    LET l == label(ga)
        performance == performance_of(l2p, l)
    IN  IF first_match(learnt, ga) # 0
        THEN with_performance(l2p, l, increase_true_positive(performance, 1))
        ELSE with_performance(l2p, l, increase_false_negative(performance, 1))

\* validate, body of the loop over learnt_anns: la is a false positive when
\* its id is not among the matched ids
validate_learnt(l2p, ids, la) ==
    IF la.id \notin Elems(ids)
    THEN with_performance(l2p, label(la),
                          increase_false_positive(performance_of(l2p, label(la)), 1))
    ELSE l2p

EmptyMap == [x \in {} |-> 0]

\* collect_tfidf_dimensions is not running
CollectIdle ==
    /\ collect_pc = "idle"
    /\ tp_freq = 0
    /\ fp_freq = 0
    /\ coll_matched = FALSE

\* no call of add_label_dimension or add_context_dimension has been made
CallsIdle == dim_calls = [label |-> {}, context |-> EmptyMap]

ValidateIdle ==
    /\ vpc = "idle"
    /\ learnt_anns = <<>>
    /\ label2performance = EmptyMap
    /\ matched_ann_ids = <<>>
    /\ la_idx = 0
    /\ gold_n = 0
    /\ gold_seen = EmptyMap
    /\ credit = <<>>

\* validate_mapped_performance: validate is entered with get_mapped_labels()
\* and fresh performance records
ValidateMappedPerformance ==
    /\ vpc = "idle"
    /\ vpc' = "gold"
    /\ learnt_anns' = get_mapped_labels(annotations, concept2label)
    /\ credit' = [i \in DOMAIN learnt_anns' |-> 0]
    /\ UNCHANGED <<label2performance, matched_ann_ids, la_idx, gold_n, gold_seen>>
    /\ UNCHANGED docVars

\* validate_combined_performance: validate is entered with
\* get_combined_anns() and fresh performance records
ValidateCombinedPerformance ==
    /\ vpc = "idle"
    /\ vpc' = "gold"
    /\ learnt_anns' = get_combined_anns(annotations, phenotypes, concept2label)
    /\ credit' = [i \in DOMAIN learnt_anns' |-> 0]
    /\ UNCHANGED <<label2performance, matched_ann_ids, la_idx, gold_n, gold_seen>>
    /\ UNCHANGED docVars

\* gold_seen after one more gold entity of label l
count_gold(seen, l) ==
    [x \in DOMAIN seen \cup {l} |->
        IF x = l THEN (IF l \in DOMAIN seen THEN seen[l] ELSE 0) + 1 ELSE seen[x]]

\* one iteration of `for ga in gold_anns`, for the next gold entity ga
ValidateGold ==
    /\ vpc = "gold"
    /\ gold_n < MaxGold
    /\ \E g \in GoldOptions :
        LET ga == gold_entity(g, gold_n)
            m == first_match(learnt_anns, ga)
        IN  /\ label2performance' = validate_gold(label2performance, learnt_anns, ga)
            /\ matched_ann_ids' = IF m # 0 THEN Append(matched_ann_ids, learnt_anns[m].id)
                                  ELSE matched_ann_ids
            /\ credit' = IF m # 0 THEN [credit EXCEPT ![m] = @ + 1] ELSE credit
            /\ gold_seen' = count_gold(gold_seen, label(ga))
    /\ gold_n' = gold_n + 1
    /\ UNCHANGED <<vpc, learnt_anns, la_idx>>
    /\ UNCHANGED docVars

\* gold_anns is exhausted: the loop over learnt_anns starts
ValidateGoldEnd ==
    /\ vpc = "gold"
    /\ vpc' = "learnt"
    /\ la_idx' = 1
    /\ UNCHANGED <<learnt_anns, label2performance, matched_ann_ids, gold_n,
                   gold_seen, credit>>
    /\ UNCHANGED docVars

\* one iteration of `for la in learnt_anns`
ValidateLearnt ==
    /\ vpc = "learnt"
    /\ la_idx <= Len(learnt_anns)
    /\ label2performance' =
           validate_learnt(label2performance, matched_ann_ids, learnt_anns[la_idx])
    /\ la_idx' = la_idx + 1
    /\ UNCHANGED <<vpc, learnt_anns, matched_ann_ids, gold_n, gold_seen, credit>>
    /\ UNCHANGED docVars

\* learnt_anns is exhausted: validate returns
ValidateReturn ==
    /\ vpc = "learnt"
    /\ la_idx > Len(learnt_anns)
    /\ vpc' = "done"
    /\ UNCHANGED <<learnt_anns, label2performance, matched_ann_ids, la_idx,
                   gold_n, gold_seen, credit>>
    /\ UNCHANGED docVars

\* --------------------------------------------------------------------------
\* LabelModel: dimensions and their selection
\* --------------------------------------------------------------------------

\* the strings passed as dimension values
DimValues == {"a", "b", "B"}

One == Num(1, 1)

\* LabelModel.__init__; _tfidf_dims = None is [set |-> FALSE, dims |-> <<>>]
NoDims == [set |-> FALSE, dims |-> <<>>]

LMInit ==
    /\ context_dimensions = <<>>
    /\ label_dimensions = <<>>
    /\ label2freq = EmptyMap
    /\ tp_labels = {}
    /\ fp_labels = {}
    /\ tps = 0
    /\ fps = 0
    /\ tfidf_dims = NoDims
    /\ tfidf_df = <<>>
    /\ lm_error = "none"

\* LabelModel.add_label_dimension(value, tp, fp); tp and fp are TRUE when
\* the argument is given (not None)
add_label_dimension(value, tp, fp) ==
    IF lower(value) \notin Elems(label_dimensions)
    THEN /\ label_dimensions' = Append(label_dimensions, lower(value))
         /\ tp_labels' = IF tp THEN tp_labels \cup {lower(value)} ELSE tp_labels
         /\ fp_labels' = IF fp THEN fp_labels \cup {lower(value)} ELSE fp_labels
    ELSE UNCHANGED <<label_dimensions, tp_labels, fp_labels>>

\* add_context_dimension registering the value as it is given
add_context_dimension_case_sensitive(value, tp, fp) ==
    /\ IF value \notin Elems(context_dimensions)
       THEN /\ context_dimensions' = Append(context_dimensions, value)
            /\ label2freq' = [x \in DOMAIN label2freq \cup {value} |->
                                 IF x = value THEN 1 ELSE label2freq[x]]
       ELSE /\ context_dimensions' = context_dimensions
            /\ label2freq' = [label2freq EXCEPT ![value] = @ + 1]
    /\ tp_labels' = IF tp THEN tp_labels \cup {value} ELSE tp_labels
    /\ fp_labels' = IF fp THEN fp_labels \cup {value} ELSE fp_labels

\* LabelModel.add_context_dimension(value, tp, fp)
add_context_dimension(value, tp, fp) ==
    /\ IF lower(value) \notin Elems(context_dimensions)
       THEN /\ context_dimensions' = Append(context_dimensions, lower(value))
            /\ label2freq' = [x \in DOMAIN label2freq \cup {lower(value)} |->
                                 IF x = lower(value) THEN 1 ELSE label2freq[x]]
       ELSE /\ context_dimensions' = context_dimensions
            /\ label2freq' = [label2freq EXCEPT ![lower(value)] = @ + 1]
    /\ tp_labels' = IF tp THEN tp_labels \cup {lower(value)} ELSE tp_labels
    /\ fp_labels' = IF fp THEN fp_labels \cup {lower(value)} ELSE fp_labels

\* get_top_tfidf_dimensions: idf_weight
idf_weight(ntps, nfps) ==
    IF ntps > 0 /\ nfps > 0 THEN Num(ntps, nfps) ELSE One

\* get_top_tfidf_dimensions: the denominator of idf for one dimension
idf_members(in_tp, in_fp) ==
    (IF in_tp THEN 1 ELSE 0) + (IF in_fp THEN 1 ELSE 0)

\* tfidf_score keeping frequency * idf for a dimension in both sets
tfidf_score_keep_both(freq, in_tp, in_fp, ntps, nfps) ==
    LET w == idf_weight(ntps, nfps)
        idf == Num(1, idf_members(in_tp, in_fp))
    IN  IF NumEq(w, One) \/ (in_tp /\ in_fp)
        THEN Num(freq * idf.n, idf.d)
        ELSE IF in_fp
             THEN Num(freq * w.n * idf.n, w.d * idf.d)
             ELSE Num(freq, 1)

\* tfidf_score with the weight fps/tps in place of tps/fps
tfidf_score_inverse_weight(freq, in_tp, in_fp, ntps, nfps) ==
    LET w == idf_weight(nfps, ntps)
        idf == Num(1, idf_members(in_tp, in_fp))
    IN  IF NumEq(w, One) \/ (in_tp /\ in_fp)
        THEN (IF in_tp /\ in_fp THEN Zero ELSE Num(freq * idf.n, idf.d))
        ELSE IF in_fp
             THEN Num(freq * w.n * idf.n, w.d * idf.d)
             ELSE Num(freq, 1)

\* get_top_tfidf_dimensions: the score of a dimension of frequency freq,
\* given its membership of _tp_labels and _fp_labels (not both absent)
tfidf_score(freq, in_tp, in_fp, ntps, nfps) ==
    LET w == idf_weight(ntps, nfps)
        idf == Num(1, idf_members(in_tp, in_fp))
    IN  IF NumEq(w, One) \/ (in_tp /\ in_fp)
        THEN (IF in_tp /\ in_fp THEN Zero ELSE Num(freq * idf.n, idf.d))
        ELSE IF in_fp
             THEN Num(freq * w.n * idf.n, w.d * idf.d)
             ELSE Num(freq, 1)

\* the orders in which a dict may list the keys S
Orders(S) ==
    {o \in [1..Cardinality(S) -> S] : \A i, j \in DOMAIN o : i # j => o[i] # o[j]}

\* the first k elements of a list (seq[:k])
Prefix(seq, k) == [i \in 1..(IF k < Len(seq) THEN k ELSE Len(seq)) |-> seq[i]]

\* the scored list df: the keys of _label2freq with their scores
ScoredDims(order) ==
    [i \in DOMAIN order |->
        [l |-> order[i],
         score |-> tfidf_score(label2freq[order[i]], order[i] \in tp_labels,
                               order[i] \in fp_labels, tps, fps)]]

\* sorted(df, key=lambda x: -x[1]): non-increasing scores
SortedByScore(df) ==
    \A i, j \in DOMAIN df : i < j => NumLeq(df[j].score, df[i].score)

\* LabelModel.get_top_tfidf_dimensions(k)
get_top_tfidf_dimensions(k) ==
    IF tfidf_dims.set
    THEN UNCHANGED <<tfidf_dims, tfidf_df, lm_error>>
    ELSE IF \E l \in DOMAIN label2freq : l \notin tp_labels /\ l \notin fp_labels
         THEN \* idf = 1.0 / 0
              /\ lm_error' = "ZeroDivisionError"
              /\ UNCHANGED <<tfidf_dims, tfidf_df>>
         ELSE \E order \in Orders(DOMAIN label2freq) :
                  /\ SortedByScore(ScoredDims(order))
                  /\ tfidf_df' = ScoredDims(order)
                  /\ tfidf_dims' = [set |-> TRUE, dims |-> Prefix(order, k)]
                  /\ lm_error' = lm_error

\* LabelModel.__init__: max_dimensions when none is given
DefaultMaxDimensions == 2000

LMCfgInit ==
    /\ lm_label = "stroke"
    /\ max_dimensions = DefaultMaxDimensions
    /\ lbl_one_dimension = TRUE

\* LabelModel.get_ann_dim_label(ann), for a mention with a negation attribute
get_ann_dim_label(ann) ==
    (IF ann.negation = "Negated" THEN "neg_" ELSE "") \o lower(ann.str)

\* list.index(x), counted from 0
index_of(seq, x) ==
    (CHOOSE i \in DOMAIN seq : seq[i] = x /\ \A j \in DOMAIN seq : seq[j] = x => i <= j) - 1

\* encode_ann storing in the second slot of a dimension the number of
\* context mentions that carry it
encode_ann_counts_frequency(ann, context_anns, dims) ==
    LET ann_label == get_ann_dim_label(ann)
        label_part ==
            IF lbl_one_dimension
            THEN << IF ann_label \in Elems(label_dimensions)
                    THEN index_of(label_dimensions, ann_label) ELSE -1 >>
            ELSE [i \in DOMAIN label_dimensions |->
                     IF label_dimensions[i] = ann_label THEN 1 ELSE 0]
        carrying(d) == {i \in DOMAIN context_anns : get_ann_dim_label(context_anns[i]) = d}
        context_part ==
            [j \in 1..(2 * Len(dims)) |->
                IF j % 2 = 1
                THEN (IF carrying(dims[(j + 1) \div 2]) # {} THEN 1 ELSE 0)
                ELSE Cardinality(carrying(dims[j \div 2]))]
    IN  label_part \o context_part

\* LabelModel.encode_ann(ann, context_anns), given the selected dimensions
encode_ann(ann, context_anns, dims) ==
    LET ann_label == get_ann_dim_label(ann)
        label_part ==
            IF lbl_one_dimension
            THEN << IF ann_label \in Elems(label_dimensions)
                    THEN index_of(label_dimensions, ann_label) ELSE -1 >>
            ELSE [i \in DOMAIN label_dimensions |->
                     IF label_dimensions[i] = ann_label THEN 1 ELSE 0]
        context_labels == {get_ann_dim_label(context_anns[i]) : i \in DOMAIN context_anns}
        context_part ==
            [j \in 1..(2 * Len(dims)) |->
                IF j % 2 = 1
                THEN (IF dims[(j + 1) \div 2] \in context_labels THEN 1 ELSE 0)
                ELSE 0]
    IN  label_part \o context_part

\* --------------------------------------------------------------------------
\* SpecEncode: label dimensions, the two settings, and encode_ann
\* --------------------------------------------------------------------------

\* the mentions handed to add_label_dimension_by_annotation and encode_ann
EncMentions ==
    {[str |-> "a", negation |-> "Affirmed"], [str |-> "a", negation |-> "Negated"],
     [str |-> "B", negation |-> "Affirmed"]}

EncIdle ==
    /\ enc_pc = "idle"
    /\ enc_ann = <<>>
    /\ enc_ctx = <<>>
    /\ enc_res = <<>>

\* LabelModel.add_label_dimension_by_annotation(ann), as the collection
\* passes call it (tp and fp are None); the collection pass precedes the
\* encoding of the training rows
CallAddLabelDimensionByAnnotation ==
    /\ enc_pc = "idle"
    /\ \E ann \in EncMentions :
        add_label_dimension(get_ann_dim_label(ann), FALSE, FALSE)
    /\ UNCHANGED <<context_dimensions, label2freq, tps, fps, tfidf_dims, tfidf_df,
                   lm_error>>
    /\ UNCHANGED <<lmCfgVars, encVars>>

\* the setter of LabelModel.use_one_dimension_for_label
SetUseOneDimensionForLabel ==
    /\ enc_pc = "idle"
    /\ \E value \in BOOLEAN : lbl_one_dimension' = value
    /\ UNCHANGED <<lm_label, max_dimensions, lmVars, encVars>>

\* the setter of LabelModel.max_dimensions, for a value that is not None;
\* predict_label and learn_prediction_model call it on a deserialised
\* LabelModel, whose selection an earlier encode_ann may have computed
SetMaxDimensions ==
    /\ lm_error = "none"
    /\ \E value \in 1..MaxDims : max_dimensions' = value
    /\ UNCHANGED <<lm_label, lbl_one_dimension, lmVars, encVars>>

\* LabelModel.encode_ann(ann, context_anns)
CallEncodeAnn ==
    /\ lm_error = "none"
    /\ \E ann \in EncMentions, context_anns \in SeqUpTo(EncMentions, MaxCtx) :
        /\ get_top_tfidf_dimensions(max_dimensions)
        /\ enc_ann' = ann
        /\ enc_ctx' = context_anns
        /\ IF lm_error' = "none"
           THEN /\ enc_res' = encode_ann(ann, context_anns, tfidf_dims'.dims)
                /\ enc_pc' = "encoded"
           ELSE /\ enc_res' = <<>>
                /\ enc_pc' = "raised"
    /\ UNCHANGED <<context_dimensions, label_dimensions, label2freq, tp_labels,
                   fp_labels, tps, fps>>
    /\ UNCHANGED lmCfgVars

\* --------------------------------------------------------------------------
\* SpecTfidf: calls on one LabelModel
\* --------------------------------------------------------------------------

\* the strings passed as label dimension values
LabelDimValues == {"a", "A"}

\* the calls counted so far, and one more for value v
count_call(counts, v) ==
    [x \in DOMAIN counts \cup {v} |->
        IF x = v THEN (IF v \in DOMAIN counts THEN counts[v] + 1 ELSE 1) ELSE counts[x]]

CallAddLabelDimension ==
    /\ lm_error = "none"
    /\ collect_pc \in {"idle", "done"}
    /\ \E value \in LabelDimValues, tp \in BOOLEAN, fp \in BOOLEAN :
        /\ add_label_dimension(value, tp, fp)
        /\ dim_calls' = [dim_calls EXCEPT !.label = @ \cup {lower(value)}]
    /\ UNCHANGED <<context_dimensions, label2freq, tps, fps, tfidf_dims, tfidf_df,
                   lm_error>>

CallAddContextDimension ==
    /\ lm_error = "none"
    /\ collect_pc \in {"idle", "done"}
    /\ \E value \in DimValues, tp \in BOOLEAN, fp \in BOOLEAN :
        /\ (lower(value) \in DOMAIN label2freq) => label2freq[lower(value)] < MaxFreq
        /\ add_context_dimension(value, tp, fp)
        /\ dim_calls' = [dim_calls EXCEPT !.context = count_call(@, lower(value))]
    /\ UNCHANGED <<label_dimensions, tps, fps, tfidf_dims, tfidf_df, lm_error>>

\* the target mentions and the context annotations of the corpus
\* collect_tfidf_dimensions reads
CollectMentions ==
    {[str |-> "a", negation |-> "Affirmed"], [str |-> "A", negation |-> "Affirmed"],
     [str |-> "a", negation |-> "Negated"]}
CollectContextAnns ==
    {[str |-> "a", negation |-> "Affirmed"], [str |-> "B", negation |-> "Affirmed"]}

\* collect_tfidf_dimensions: the polarity test that skips a mention
polarity_skipped(l, a) ==
    \/ (a.negation # "Negated" /\ starts_neg(l))
    \/ (a.negation = "Negated" /\ ~starts_neg(l))

\* collect_tfidf_dimensions, one iteration of `for a in anns + neg_anns` up
\* to the loop over its context: the label dimension of a is registered
\* first; a mention of the other polarity is skipped; n gold entities of the
\* label still unmatched overlap a (each adds 1 to tp_freq, none adds 1 to
\* fp_freq); get_prior_anns raises a TypeError when a lies in no sentence
CollectMention ==
    /\ lm_error = "none"
    /\ collect_pc \in {"idle", "mentions", "context"}
    /\ \E a \in CollectMentions, n \in 0..MaxTP, in_sentence \in BOOLEAN :
        /\ add_label_dimension(get_ann_dim_label(a), FALSE, FALSE)
        /\ dim_calls' = [dim_calls EXCEPT !.label = @ \cup {get_ann_dim_label(a)}]
        /\ IF polarity_skipped(lm_label, a)
           THEN /\ collect_pc' = "mentions"
                /\ UNCHANGED <<tp_freq, fp_freq, coll_matched, lm_error>>
           ELSE /\ tp_freq + n <= MaxTP
                /\ (n = 0) => fp_freq < MaxTP
                /\ tp_freq' = tp_freq + n
                /\ fp_freq' = IF n = 0 THEN fp_freq + 1 ELSE fp_freq
                /\ coll_matched' = (n > 0)
                /\ IF in_sentence
                   THEN collect_pc' = "context" /\ lm_error' = lm_error
                   ELSE collect_pc' = "raised" /\ lm_error' = "TypeError"
    /\ UNCHANGED <<context_dimensions, label2freq, tps, fps, tfidf_dims, tfidf_df>>

\* collect_tfidf_dimensions, one iteration of `for c in context_anns`:
\* add_context_dimension_by_annotation(c, tp or fp as the mention matched)
CollectContext ==
    /\ lm_error = "none"
    /\ collect_pc = "context"
    /\ \E c \in CollectContextAnns :
        LET value == get_ann_dim_label(c)
        IN  /\ (value \in DOMAIN label2freq) => label2freq[value] < MaxFreq
            /\ add_context_dimension(value, coll_matched, ~coll_matched)
            /\ dim_calls' = [dim_calls EXCEPT !.context = count_call(@, value)]
    /\ UNCHANGED <<label_dimensions, tps, fps, tfidf_dims, tfidf_df, lm_error>>
    /\ UNCHANGED collectVars

\* collect_tfidf_dimensions, after its loops: the totals become _tps and
\* _fps, and the pass returns
CollectReturn ==
    /\ lm_error = "none"
    /\ collect_pc \in {"idle", "mentions", "context"}
    /\ tps' = tp_freq
    /\ fps' = fp_freq
    /\ collect_pc' = "done"
    /\ UNCHANGED <<context_dimensions, label_dimensions, label2freq, tp_labels,
                   fp_labels, tfidf_dims, tfidf_df, lm_error>>
    /\ UNCHANGED <<tp_freq, fp_freq, coll_matched, dim_calls>>

CallGetTopTfidfDimensions ==
    /\ lm_error = "none"
    /\ collect_pc \in {"idle", "done"}
    /\ \E k \in 1..MaxDims : get_top_tfidf_dimensions(k)
    /\ UNCHANGED <<context_dimensions, label_dimensions, label2freq, tp_labels,
                   fp_labels, tps, fps>>

\* --------------------------------------------------------------------------
\* LabelModel.load_data, for a corpus of one annotated file
\* --------------------------------------------------------------------------

LoadIdle ==
    /\ has_gold = FALSE
    /\ gold_entities = <<>>
    /\ ld_pc = "idle"
    /\ ld_anns = <<>>
    /\ ld_idx = 0
    /\ not_matched_gds = <<>>
    /\ X = <<>>
    /\ Y = <<>>
    /\ false_negatives = 0
    /\ multiple_true_positives = 0

\* EDIRDoc.get_ess_entities: the gold entities with their ids 0, 1, ...
load_gold(raw) == [i \in 1..Len(raw) |-> gold_entity(raw[i], i - 1)]

\* load_data: the ids of the gold entities of the target label
target_gold_ids(golds, l) ==
    LET ids == [i \in DOMAIN golds |-> golds[i].id]
        wanted(id) == \E i \in DOMAIN golds : golds[i].id = id /\ label(golds[i]) = l
    IN  SelectSeq(ids, wanted)

\* match_gold counting a multiple true positive for a mention that overlaps
\* a gold entity an earlier mention has matched
RECURSIVE match_gold_counts_rematch(_, _, _, _, _, _, _)
match_gold_counts_rematch(golds, i, a, l, not_matched, matched, mtp) ==
    IF i > Len(golds)
    THEN [matched |-> matched, not_matched |-> not_matched, mtp |-> mtp]
    ELSE LET g == golds[i]
             other(id) == id # g.id
         IN  IF overlap(g, a) /\ label(g) = l
             THEN IF g.id \in Elems(not_matched)
                  THEN match_gold_counts_rematch(golds, i + 1, a, l,
                                                 SelectSeq(not_matched, other), TRUE,
                                                 IF matched THEN mtp + 1 ELSE mtp)
                  ELSE match_gold_counts_rematch(golds, i + 1, a, l, not_matched,
                                                 matched, mtp + 1)
             ELSE match_gold_counts_rematch(golds, i + 1, a, l, not_matched, matched, mtp)

\* match_gold testing a.overlap(g) in place of g.overlap(a)
RECURSIVE match_gold_reversed(_, _, _, _, _, _, _)
match_gold_reversed(golds, i, a, l, not_matched, matched, mtp) ==
    IF i > Len(golds)
    THEN [matched |-> matched, not_matched |-> not_matched, mtp |-> mtp]
    ELSE LET g == golds[i]
             other(id) == id # g.id
         IN  IF g.id \in Elems(not_matched) /\ overlap(a, g) /\ label(g) = l
             THEN match_gold_reversed(golds, i + 1, a, l, SelectSeq(not_matched, other),
                                      TRUE, IF matched THEN mtp + 1 ELSE mtp)
             ELSE match_gold_reversed(golds, i + 1, a, l, not_matched, matched, mtp)

\* match_gold leaving a matched gold entity in not_matched_gds
RECURSIVE match_gold_keeps_matched(_, _, _, _, _, _, _)
match_gold_keeps_matched(golds, i, a, l, not_matched, matched, mtp) ==
    IF i > Len(golds)
    THEN [matched |-> matched, not_matched |-> not_matched, mtp |-> mtp]
    ELSE LET g == golds[i]
         IN  IF g.id \in Elems(not_matched) /\ overlap(g, a) /\ label(g) = l
             THEN match_gold_keeps_matched(golds, i + 1, a, l, not_matched,
                                           TRUE, IF matched THEN mtp + 1 ELSE mtp)
             ELSE match_gold_keeps_matched(golds, i + 1, a, l, not_matched, matched, mtp)

\* load_data, the loop over the gold entities for mention a, from position i
\* on: whether a is matched, the ids still not matched, the extra matches
RECURSIVE match_gold(_, _, _, _, _, _, _)
match_gold(golds, i, a, l, not_matched, matched, mtp) ==
    IF i > Len(golds)
    THEN [matched |-> matched, not_matched |-> not_matched, mtp |-> mtp]
    ELSE LET g == golds[i]
             other(id) == id # g.id
         IN  IF g.id \in Elems(not_matched) /\ overlap(g, a) /\ label(g) = l
             THEN match_gold(golds, i + 1, a, l, SelectSeq(not_matched, other),
                             TRUE, IF matched THEN mtp + 1 ELSE mtp)
             ELSE match_gold(golds, i + 1, a, l, not_matched, matched, mtp)

\* load_data up to the loop over the mentions of the file: a file without a
\* gold file is skipped, and load_data returns
LoadDataOpen ==
    /\ ld_pc = "idle"
    /\ IF ~has_gold
       THEN /\ ld_pc' = "returned"
            /\ UNCHANGED <<ld_anns, ld_idx, not_matched_gds>>
       ELSE /\ ld_pc' = "mentions"
            /\ not_matched_gds' = target_gold_ids(gold_entities, lm_label)
            /\ ld_anns' = get_anns_by_label(annotations, phenotypes, concept2label,
                                            lm_label, {})
            /\ ld_idx' = 1
    /\ UNCHANGED <<has_gold, gold_entities, X, Y, false_negatives,
                   multiple_true_positives>>
    /\ UNCHANGED <<docVars, lmVars, lmCfgVars>>

\* one iteration of `for a in anns`; get_prior_anns raises a TypeError on
\* sents[-1:] when the mention has no sentence
LoadDataMention ==
    /\ ld_pc = "mentions"
    /\ ld_idx <= Len(ld_anns)
    /\ LET a == ld_anns[ld_idx]
       IN  IF get_ann_sentence(sentences, a) = 0
           THEN /\ lm_error' = "TypeError"
                /\ ld_pc' = "raised"
                /\ UNCHANGED <<ld_idx, not_matched_gds, X, Y, multiple_true_positives,
                               tfidf_dims, tfidf_df>>
           ELSE LET t2anns == get_prior_anns(annotations, phenotypes, sentences, a)
                    context_anns == t2anns.umls \o t2anns.phenotype
                    m == match_gold(gold_entities, 1, a, lm_label, not_matched_gds,
                                    FALSE, 0)
                IN  /\ not_matched_gds' = m.not_matched
                    /\ multiple_true_positives' = multiple_true_positives + m.mtp
                    /\ Y' = Append(Y, << IF m.matched THEN 1 ELSE 0 >>)
                    /\ get_top_tfidf_dimensions(max_dimensions)
                    /\ IF lm_error' = "none"
                       THEN /\ X' = Append(X, encode_ann(a, context_anns, tfidf_dims'.dims))
                            /\ ld_idx' = ld_idx + 1
                            /\ ld_pc' = ld_pc
                       ELSE /\ X' = X
                            /\ ld_idx' = ld_idx
                            /\ ld_pc' = "raised"
    /\ UNCHANGED <<has_gold, gold_entities, ld_anns, false_negatives>>
    /\ UNCHANGED <<context_dimensions, label_dimensions, label2freq, tp_labels,
                   fp_labels, tps, fps>>
    /\ UNCHANGED <<docVars, lmCfgVars>>

\* the mentions of the file are exhausted: its unmatched gold entities are
\* counted and load_data returns X, Y, fns and mtp
LoadDataReturn ==
    /\ ld_pc = "mentions"
    /\ ld_idx > Len(ld_anns)
    /\ false_negatives' = false_negatives + Len(not_matched_gds)
    /\ ld_pc' = "returned"
    /\ UNCHANGED <<has_gold, gold_entities, ld_anns, ld_idx, not_matched_gds, X, Y,
                   multiple_true_positives>>
    /\ UNCHANGED <<docVars, lmVars, lmCfgVars>>

\* --------------------------------------------------------------------------
\* LabelModel.decision_tree_learning and LabelModel.predict_use_model
\* --------------------------------------------------------------------------

\* the feature rows and the label rows handed to the classifier
FeatureRows == {<<0>>, <<1>>}
LabelRows == {<<0>>, <<1>>}

LearnIdle ==
    /\ min_sample_size = 0
    /\ ml_model_file = "absent"
    /\ output_given = FALSE
    /\ learn_pc = "idle"
    /\ learner = "none"
    /\ pr_X = <<>>
    /\ pr_Y = <<>>
    /\ pr_fns = 0
    /\ pr_mtp = 0
    /\ pr_pc = "idle"
    /\ all_true = FALSE
    /\ P = <<>>
    /\ pr_idx = 0

\* isfile(path) for the classifier file
isfile(f) == f # "absent"

\* len(X) <= _min_sample_size
not_enough_data(rows, min) == Len(rows) <= min

\* LabelModel.decision_tree_learning(X, Y, lm, output_file) without pca and
\* tree_viz_file; isfile(None) raises a TypeError
DecisionTreeLearning ==
    /\ learn_pc = "idle"
    /\ learner = "none"
    /\ pr_pc = "idle"
    /\ IF not_enough_data(pr_X, min_sample_size)
       THEN IF ~output_given
            THEN /\ learn_pc' = "TypeError"
                 /\ ml_model_file' = ml_model_file
            ELSE /\ learn_pc' = "skipped"
                 /\ ml_model_file' = "absent"
       ELSE /\ learn_pc' = "fitted"
            /\ ml_model_file' = IF output_given THEN "fitted" ELSE ml_model_file
    /\ learner' = "decision_tree"
    /\ UNCHANGED <<min_sample_size, output_given, pr_X, pr_Y, pr_fns, pr_mtp, pr_pc,
                   all_true, P, pr_idx, lp>>

\* LabelModel.random_forest_learning(X, Y, output_file): an empty X returns
\* at once and leaves the file alone
RandomForestLearning ==
    /\ learn_pc = "idle"
    /\ learner = "none"
    /\ pr_pc = "idle"
    /\ IF Len(pr_X) = 0
       THEN /\ learn_pc' = "skipped"
            /\ ml_model_file' = ml_model_file
       ELSE /\ learn_pc' = "fitted"
            /\ ml_model_file' = IF output_given THEN "fitted" ELSE ml_model_file
    /\ learner' = "random_forest"
    /\ UNCHANGED <<min_sample_size, output_given, pr_X, pr_Y, pr_fns, pr_mtp, pr_pc,
                   all_true, P, pr_idx, lp>>

\* svm_learning, the loop `for y in Y` from row i on, v being the first
\* label seen (-1 before): TRUE when no row differs from it
RECURSIVE svm_all_same(_, _, _)
svm_all_same(rows, i, v) ==
    IF i > Len(rows) THEN TRUE
    ELSE LET v1 == IF v = -1 THEN rows[i][1] ELSE v
         IN  IF v1 # rows[i][1] THEN FALSE ELSE svm_all_same(rows, i + 1, v1)

\* LabelModel.svm_learning(X, Y, output_file): returns without fitting for
\* an empty X and for labels that are all the same
SvmLearning ==
    /\ learn_pc = "idle"
    /\ learner = "none"
    /\ pr_pc = "idle"
    /\ IF Len(pr_X) = 0 \/ svm_all_same(pr_Y, 1, -1)
       THEN /\ learn_pc' = "skipped"
            /\ ml_model_file' = ml_model_file
       ELSE /\ learn_pc' = "fitted"
            /\ ml_model_file' = IF output_given THEN "fitted" ELSE ml_model_file
    /\ learner' = "svm"
    /\ UNCHANGED <<min_sample_size, output_given, pr_X, pr_Y, pr_fns, pr_mtp, pr_pc,
                   all_true, P, pr_idx, lp>>

\* GaussianProcessClassifier().fit(X, Y) raises a ValueError for an empty X
\* and for labels of a single class
gpc_fit_raises(rows, labels) ==
    Len(rows) = 0 \/ \A i, j \in DOMAIN labels : labels[i] = labels[j]

\* LabelModel.gpc_learning(X, Y, output_file): fits without any guard
GpcLearning ==
    /\ learn_pc = "idle"
    /\ learner = "none"
    /\ pr_pc = "idle"
    /\ IF gpc_fit_raises(pr_X, pr_Y)
       THEN /\ learn_pc' = "ValueError"
            /\ ml_model_file' = ml_model_file
       ELSE /\ learn_pc' = "fitted"
            /\ ml_model_file' = IF output_given THEN "fitted" ELSE ml_model_file
    /\ learner' = "gpc"
    /\ UNCHANGED <<min_sample_size, output_given, pr_X, pr_Y, pr_fns, pr_mtp, pr_pc,
                   all_true, P, pr_idx, lp>>

\* numpy.ones(n)
ones(n) == [i \in 1..n |-> 1]

\* predict_use_model: `all_true or len(X) <= _min_sample_size`
use_querying(no_file, rows, min) == no_file \/ not_enough_data(rows, min)

\* m.predict(X_new) of the loaded classifier: its input validation raises a
\* ValueError for an empty X
predict_raises(rows) == Len(rows) = 0

\* predict_use_model up to its scoring loop; the classes the loaded
\* classifier predicts are any vector over {0, 1}.  With a model file the
\* classifier predicts before the counts are folded and before the test
\* `all_true or len(X) <= _min_sample_size`.
PredictOpen ==
    /\ pr_pc = "idle"
    /\ learn_pc \notin {"TypeError", "ValueError"}
    /\ IF isfile(ml_model_file) /\ predict_raises(pr_X)
       THEN /\ pr_pc' = "ValueError"
            /\ UNCHANGED <<all_true, P, lp, pr_idx>>
       ELSE /\ all_true' = ~isfile(ml_model_file)
            /\ \E predicted \in [1..Len(pr_X) -> {0, 1}] :
                P' = IF use_querying(~isfile(ml_model_file), pr_X, min_sample_size)
                     THEN ones(Len(pr_X))
                     ELSE predicted
            /\ lp' = IF isfile(ml_model_file)
                     THEN LET p1 == IF pr_fns > 0 THEN increase_false_negative(lp, pr_fns)
                                    ELSE lp
                          IN  IF pr_mtp > 0 THEN increase_true_positive(p1, pr_mtp) ELSE p1
                     ELSE lp
            /\ pr_idx' = 1
            /\ pr_pc' = "scoring"
    /\ UNCHANGED <<min_sample_size, ml_model_file, output_given, learn_pc, learner,
                   pr_X, pr_Y, pr_fns, pr_mtp>>

\* P[idx] == Y[idx], a number compared with a one-element row
equals_row(v, row) == v = row[1]

\* one iteration of the scoring loop of predict_use_model
PredictScore ==
    /\ pr_pc = "scoring"
    /\ pr_idx <= Len(P)
    /\ lp' = IF equals_row(P[pr_idx], pr_Y[pr_idx])
             THEN (IF P[pr_idx] = 1 THEN increase_true_positive(lp, 1) ELSE lp)
             ELSE IF P[pr_idx] = 1
                  THEN increase_false_positive(lp, 1)
                  ELSE increase_false_negative(lp, 1)
    /\ pr_idx' = pr_idx + 1
    /\ UNCHANGED <<min_sample_size, ml_model_file, output_given, learn_pc, learner,
                   pr_X, pr_Y, pr_fns, pr_mtp, pr_pc, all_true, P>>

\* the scoring loop is over: predict_use_model returns
PredictReturn ==
    /\ pr_pc = "scoring"
    /\ pr_idx > Len(P)
    /\ pr_pc' = "returned"
    /\ UNCHANGED <<min_sample_size, ml_model_file, output_given, learn_pc, learner,
                   pr_X, pr_Y, pr_fns, pr_mtp, all_true, P, pr_idx, lp>>

\* --------------------------------------------------------------------------
\* Specifications
\* --------------------------------------------------------------------------

vars == <<spanVars, perfVars, docVars, validateVars, lmVars, lmCfgVars, loadVars,
          learnVars, queryVars, encVars, callVars, collectVars>>

InitSpan ==
    /\ spanA \in Spans
    /\ spanB \in Spans
    /\ spanRes = NoSpanRes
    /\ spanDone = {}
    /\ PerfIdle /\ DocIdle /\ ValidateIdle /\ LMInit /\ LMCfgInit /\ LoadIdle /\ LearnIdle /\ QueryIdle /\ EncIdle /\ CallsIdle /\ CollectIdle

NextSpan ==
    \/ (CallOverlapAB /\ UNCHANGED <<perfVars, docVars, validateVars, lmVars, lmCfgVars, loadVars, learnVars, queryVars, encVars, callVars, collectVars>>)
    \/ (CallOverlapBA /\ UNCHANGED <<perfVars, docVars, validateVars, lmVars, lmCfgVars, loadVars, learnVars, queryVars, encVars, callVars, collectVars>>)
    \/ (CallIsLarger /\ UNCHANGED <<perfVars, docVars, validateVars, lmVars, lmCfgVars, loadVars, learnVars, queryVars, encVars, callVars, collectVars>>)

SpecSpan == InitSpan /\ [][NextSpan]_vars

InitPerf == SpanIdle /\ PerfIdle /\ DocIdle /\ ValidateIdle /\ LMInit /\ LMCfgInit /\ LoadIdle /\ LearnIdle /\ QueryIdle /\ EncIdle /\ CallsIdle /\ CollectIdle

NextPerf ==
    \/ (CallIncreaseTruePositive /\ UNCHANGED <<spanVars, docVars, validateVars, lmVars, lmCfgVars, loadVars, learnVars, queryVars, encVars, callVars, collectVars>>)
    \/ (CallIncreaseFalseNegative /\ UNCHANGED <<spanVars, docVars, validateVars, lmVars, lmCfgVars, loadVars, learnVars, queryVars, encVars, callVars, collectVars>>)
    \/ (CallIncreaseFalsePositive /\ UNCHANGED <<spanVars, docVars, validateVars, lmVars, lmCfgVars, loadVars, learnVars, queryVars, encVars, callVars, collectVars>>)

SpecPerf == InitPerf /\ [][NextPerf]_vars

InitValidate ==
    /\ concept_mapping \in MappingTables
    /\ \E raw \in SeqUpTo(RawMentions, MaxAnns) : annotations = load_mentions(raw)
    /\ \E raw \in SeqUpTo(RawPhenotypes, MaxPhe) : phenotypes = load_phenotypes(raw)
    /\ sentences = <<>>
    /\ SpanIdle /\ PerfIdle /\ ValidateIdle /\ LMInit /\ LMCfgInit /\ LoadIdle /\ LearnIdle /\ QueryIdle /\ EncIdle /\ CallsIdle /\ CollectIdle

NextValidate ==
    \/ (ValidateCombinedPerformance /\ UNCHANGED <<spanVars, perfVars, lmVars, lmCfgVars, loadVars, learnVars, queryVars, encVars, callVars, collectVars>>)
    \/ (ValidateMappedPerformance /\ UNCHANGED <<spanVars, perfVars, lmVars, lmCfgVars, loadVars, learnVars, queryVars, encVars, callVars, collectVars>>)
    \/ (ValidateGold /\ UNCHANGED <<spanVars, perfVars, lmVars, lmCfgVars, loadVars, learnVars, queryVars, encVars, callVars, collectVars>>)
    \/ (ValidateGoldEnd /\ UNCHANGED <<spanVars, perfVars, lmVars, lmCfgVars, loadVars, learnVars, queryVars, encVars, callVars, collectVars>>)
    \/ (ValidateLearnt /\ UNCHANGED <<spanVars, perfVars, lmVars, lmCfgVars, loadVars, learnVars, queryVars, encVars, callVars, collectVars>>)
    \/ (ValidateReturn /\ UNCHANGED <<spanVars, perfVars, lmVars, lmCfgVars, loadVars, learnVars, queryVars, encVars, callVars, collectVars>>)

SpecValidate == InitValidate /\ [][NextValidate]_vars

InitTfidf == SpanIdle /\ PerfIdle /\ DocIdle /\ ValidateIdle /\ LMInit /\ LMCfgInit /\ LoadIdle /\ LearnIdle /\ QueryIdle /\ EncIdle /\ CallsIdle /\ CollectIdle

NextTfidf ==
    \/ (CallAddLabelDimension /\ UNCHANGED <<spanVars, perfVars, docVars, validateVars, lmCfgVars, loadVars, learnVars, queryVars, encVars, collectVars>>)
    \/ (CallAddContextDimension /\ UNCHANGED <<spanVars, perfVars, docVars, validateVars, lmCfgVars, loadVars, learnVars, queryVars, encVars, collectVars>>)
    \/ (CollectMention /\ UNCHANGED <<spanVars, perfVars, docVars, validateVars, lmCfgVars, loadVars, learnVars, queryVars, encVars>>)
    \/ (CollectContext /\ UNCHANGED <<spanVars, perfVars, docVars, validateVars, lmCfgVars, loadVars, learnVars, queryVars, encVars>>)
    \/ (CollectReturn /\ UNCHANGED <<spanVars, perfVars, docVars, validateVars, lmCfgVars, loadVars, learnVars, queryVars, encVars>>)
    \/ (CallGetTopTfidfDimensions /\ UNCHANGED <<spanVars, perfVars, docVars, validateVars, lmCfgVars, loadVars, learnVars, queryVars, encVars, callVars, collectVars>>)

SpecTfidf == InitTfidf /\ [][NextTfidf]_vars

\* a LabelModel after its collection pass: the label dimension "s", the
\* context dimensions "s" (frequency 2, with a true positive) and "neg_s"
\* (frequency 1, with a false positive), one true and one false positive
LMCollected ==
    /\ context_dimensions = <<"s", "neg_s">>
    /\ label_dimensions = <<"s">>
    /\ label2freq = [x \in {"s", "neg_s"} |-> IF x = "s" THEN 2 ELSE 1]
    /\ tp_labels = {"s"}
    /\ fp_labels = {"neg_s"}
    /\ tps = 1
    /\ fps = 1
    /\ tfidf_dims = NoDims
    /\ tfidf_df = <<>>
    /\ lm_error = "none"

\* the documents of SpecLoad: phenotypes are strokes or affirmed tias, the
\* sentence starts at offset 0, gold entities are affirmed
LoadPhenotypes ==
    {m \in RawPhenotypes : m.minor_type = "stroke" \/ m.negation = "Affirmed"}
LoadSentences == {sp \in Spans : sp.start = 0}
LoadGold == {g \in GoldOptions : ~g.negated}

InitLoad ==
    /\ concept_mapping \in MappingTables
    /\ \E raw \in SeqUpTo(RawMentions, MaxAnns) : annotations = load_mentions(raw)
    /\ \E raw \in SeqUpTo(LoadPhenotypes, MaxPhe) : phenotypes = load_phenotypes(raw)
    /\ \E raw \in SeqUpTo(LoadSentences, MaxSent) : sentences = load_sentences(raw)
    /\ has_gold \in BOOLEAN
    /\ \E raw \in SeqUpTo(LoadGold, MaxGold) :
           gold_entities = IF has_gold THEN load_gold(raw) ELSE <<>>
    /\ ld_pc = "idle"
    /\ ld_anns = <<>>
    /\ ld_idx = 0
    /\ not_matched_gds = <<>>
    /\ X = <<>>
    /\ Y = <<>>
    /\ false_negatives = 0
    /\ multiple_true_positives = 0
    /\ LMCollected /\ LMCfgInit
    /\ SpanIdle /\ PerfIdle /\ ValidateIdle /\ LearnIdle /\ QueryIdle /\ EncIdle /\ CallsIdle /\ CollectIdle

NextLoad ==
    \/ (LoadDataOpen /\ UNCHANGED <<spanVars, perfVars, validateVars, learnVars, queryVars, encVars, callVars, collectVars>>)
    \/ (LoadDataMention /\ UNCHANGED <<spanVars, perfVars, validateVars, learnVars, queryVars, encVars, callVars, collectVars>>)
    \/ (LoadDataReturn /\ UNCHANGED <<spanVars, perfVars, validateVars, learnVars, queryVars, encVars, callVars, collectVars>>)

SpecLoad == InitLoad /\ [][NextLoad]_vars

InitLearn ==
    /\ min_sample_size \in 0..MaxMin
    /\ ml_model_file \in {"absent", "stale"}
    /\ output_given \in BOOLEAN
    /\ learn_pc = "idle"
    /\ learner = "none"
    /\ \E n \in 0..MaxRows :
        /\ pr_X \in [1..n -> FeatureRows]
        /\ pr_Y \in [1..n -> LabelRows]
    /\ pr_fns \in 0..MaxMissed
    /\ pr_mtp \in 0..MaxMissed
    /\ pr_pc = "idle"
    /\ all_true = FALSE
    /\ P = <<>>
    /\ pr_idx = 0
    /\ SpanIdle /\ PerfIdle /\ DocIdle /\ ValidateIdle /\ LMInit /\ LMCfgInit /\ LoadIdle /\ QueryIdle /\ EncIdle /\ CallsIdle /\ CollectIdle

NextLearn ==
    \/ (DecisionTreeLearning /\ UNCHANGED <<spanVars, docVars, validateVars, lmVars, lmCfgVars, loadVars, queryVars, encVars, callVars, collectVars>>)
    \/ (RandomForestLearning /\ UNCHANGED <<spanVars, docVars, validateVars, lmVars, lmCfgVars, loadVars, queryVars, encVars, callVars, collectVars>>)
    \/ (SvmLearning /\ UNCHANGED <<spanVars, docVars, validateVars, lmVars, lmCfgVars, loadVars, queryVars, encVars, callVars, collectVars>>)
    \/ (GpcLearning /\ UNCHANGED <<spanVars, docVars, validateVars, lmVars, lmCfgVars, loadVars, queryVars, encVars, callVars, collectVars>>)
    \/ (PredictOpen /\ UNCHANGED <<spanVars, docVars, validateVars, lmVars, lmCfgVars, loadVars, queryVars, encVars, callVars, collectVars>>)
    \/ (PredictScore /\ UNCHANGED <<spanVars, docVars, validateVars, lmVars, lmCfgVars, loadVars, queryVars, encVars, callVars, collectVars>>)
    \/ (PredictReturn /\ UNCHANGED <<spanVars, docVars, validateVars, lmVars, lmCfgVars, loadVars, queryVars, encVars, callVars, collectVars>>)

SpecLearn == InitLearn /\ [][NextLearn]_vars

\* a mapping table in which concept C1 appears in two entries of one label
DocMappingTables ==
    MappingTables \cup
    { << [t |-> "stroke", texts |-> << [cui |-> "C1", pref |-> "p1"],
                                       [cui |-> "C1", pref |-> "p2"] >>] >> }

InitDoc ==
    /\ concept_mapping \in DocMappingTables
    /\ \E raw \in SeqUpTo(RawMentions, MaxAnns) : annotations = load_mentions(raw)
    /\ \E raw \in SeqUpTo(RawPhenotypes, MaxPhe) : phenotypes = load_phenotypes(raw)
    /\ \E raw \in SeqUpTo(Spans, MaxSent) : sentences = load_sentences(raw)
    /\ QueryIdle /\ EncIdle /\ CallsIdle /\ CollectIdle
    /\ SpanIdle /\ PerfIdle /\ ValidateIdle /\ LMInit /\ LMCfgInit /\ LoadIdle /\ LearnIdle

NextDoc ==
    \/ (CallGetMappedLabels /\ UNCHANGED <<spanVars, perfVars, validateVars, lmVars, lmCfgVars, loadVars, learnVars, encVars, callVars, collectVars>>)
    \/ (CallGetCombinedAnns /\ UNCHANGED <<spanVars, perfVars, validateVars, lmVars, lmCfgVars, loadVars, learnVars, encVars, callVars, collectVars>>)
    \/ (CallGetAnnsByLabel /\ UNCHANGED <<spanVars, perfVars, validateVars, lmVars, lmCfgVars, loadVars, learnVars, encVars, callVars, collectVars>>)
    \/ (CallGetAnnSentence /\ UNCHANGED <<spanVars, perfVars, validateVars, lmVars, lmCfgVars, loadVars, learnVars, encVars, callVars, collectVars>>)
    \/ (CallGetSameSentenceAnns /\ UNCHANGED <<spanVars, perfVars, validateVars, lmVars, lmCfgVars, loadVars, learnVars, encVars, callVars, collectVars>>)
    \/ (CallGetPriorAnns /\ UNCHANGED <<spanVars, perfVars, validateVars, lmVars, lmCfgVars, loadVars, learnVars, encVars, callVars, collectVars>>)

SpecDoc == InitDoc /\ [][NextDoc]_vars

\* the documents of SpecSelect: affirmed mentions of concept C1 and affirmed
\* stroke phenotypes, no sentence
SelMentions == {m \in RawMentions : m.cui = "C1" /\ m.negation = "Affirmed"}
SelPhenotypes ==
    {m \in RawPhenotypes : m.minor_type = "stroke" /\ m.negation = "Affirmed"}

InitSelect ==
    /\ concept_mapping \in MappingTables
    /\ \E raw \in SeqUpTo(SelMentions, MaxAnns) : annotations = load_mentions(raw)
    /\ \E raw \in SeqUpTo(SelPhenotypes, MaxSelPhe) : phenotypes = load_phenotypes(raw)
    /\ sentences = <<>>
    /\ QueryIdle /\ EncIdle /\ CallsIdle /\ CollectIdle
    /\ SpanIdle /\ PerfIdle /\ ValidateIdle /\ LMInit /\ LMCfgInit /\ LoadIdle /\ LearnIdle

NextSelect ==
    \/ (CallGetAnnsByLabel /\ UNCHANGED <<spanVars, perfVars, validateVars, lmVars, lmCfgVars, loadVars, learnVars, encVars, callVars, collectVars>>)

SpecSelect == InitSelect /\ [][NextSelect]_vars

\* a LabelModel whose collection pass has registered the context dimensions
\* "a" (frequency 2, with a true positive) and "neg_a" (frequency 1, with a
\* false positive), and the label dimension "a" of its target mentions
EncCollected ==
    /\ context_dimensions = <<"a", "neg_a">>
    /\ label_dimensions = <<"a">>
    /\ label2freq = [x \in {"a", "neg_a"} |-> IF x = "a" THEN 2 ELSE 1]
    /\ tp_labels = {"a"}
    /\ fp_labels = {"neg_a"}
    /\ tps = 1
    /\ fps = 1
    /\ tfidf_dims = NoDims
    /\ tfidf_df = <<>>
    /\ lm_error = "none"

InitEncode ==
    /\ EncCollected /\ LMCfgInit /\ EncIdle /\ CallsIdle /\ CollectIdle
    /\ SpanIdle /\ PerfIdle /\ DocIdle /\ ValidateIdle /\ LoadIdle /\ LearnIdle /\ QueryIdle

NextEncode ==
    \/ (CallAddLabelDimensionByAnnotation /\ UNCHANGED <<spanVars, perfVars, docVars, validateVars, loadVars, learnVars, queryVars, callVars, collectVars>>)
    \/ (SetUseOneDimensionForLabel /\ UNCHANGED <<spanVars, perfVars, docVars, validateVars, loadVars, learnVars, queryVars, callVars, collectVars>>)
    \/ (SetMaxDimensions /\ UNCHANGED <<spanVars, perfVars, docVars, validateVars, loadVars, learnVars, queryVars, callVars, collectVars>>)
    \/ (CallEncodeAnn /\ UNCHANGED <<spanVars, perfVars, docVars, validateVars, loadVars, learnVars, queryVars, callVars, collectVars>>)

SpecEncode == InitEncode /\ [][NextEncode]_vars

\* --------------------------------------------------------------------------
\* Properties of the span algebra (SpecSpan)
\* --------------------------------------------------------------------------

\* C1: overlap is symmetric: A.overlap(B) and B.overlap(A) return the same
\* boolean for all spans A and B with start <= end.
C1_OverlapSymmetric ==
    ({"ab", "ba"} \subseteq spanDone) => (spanRes.ab = spanRes.ba)

\* C2: containment implies overlap: whenever A.is_larger(B) is true,
\* A.overlap(B) is true.
C2_LargerImpliesOverlap ==
    ({"ab", "larger"} \subseteq spanDone /\ spanRes.larger) => spanRes.ab

\* --------------------------------------------------------------------------
\* Properties of validate (SpecValidate)
\* --------------------------------------------------------------------------

AllLabels == Types \cup {"neg_" \o t : t \in Types}

TP(l) == performance_of(label2performance, l).tp
FN(l) == performance_of(label2performance, l).fn
FP(l) == performance_of(label2performance, l).fp
GoldCount(l) == IF l \in DOMAIN gold_seen THEN gold_seen[l] ELSE 0

\* C3: within one validate call no detected mention is credited as a true
\* positive for more than one gold entity (a gold entity is only matched to a
\* mention that no earlier gold entity has claimed).
C3_NoDoubleCredit ==
    \A i \in DOMAIN credit : credit[i] <= 1

\* C4: after validate on fresh records, for each label L, FP(L) is the
\* number of detected annotations with label L that were never matched to a
\* gold entity, derived annotations sharing an id with another one included.
C4_FalsePositivesPerLabel ==
    (vpc = "done") =>
        \A l \in AllLabels :
            FP(l) = Cardinality({i \in DOMAIN learnt_anns :
                                    label(learnt_anns[i]) = l /\ credit[i] = 0})

\* C5: on fresh records every gold entity is counted exactly once, as a true
\* positive or as a false negative of its own label: for each label L,
\* TP(L) + FN(L) is the number of gold entities whose label is L.
C5_GoldCountedOnce ==
    \A l \in AllLabels : TP(l) + FN(l) = GoldCount(l)

\* validate has returned with a label that has both a matched and a missed
\* gold entity
C5_Witness ==
    /\ vpc = "done"
    /\ \E l \in AllLabels : TP(l) = 1 /\ FN(l) = 1 /\ GoldCount(l) = 2

\* --------------------------------------------------------------------------
\* Properties of LabelPerformance (SpecPerf)
\* --------------------------------------------------------------------------

\* C6: precision is -1 exactly when TP+FP = 0, recall is -1 exactly when
\* TP+FN = 0, f1 is -1 exactly when precision or recall is -1 or 0; a record
\* with TP = FN = FP = 0 has precision = recall = f1 = -1.
C6_Sentinels ==
    /\ NumEq(precision(lp), MinusOne) <=> (lp.tp + lp.fp = 0)
    /\ NumEq(recall(lp), MinusOne) <=> (lp.tp + lp.fn = 0)
    /\ NumEq(f1(lp), MinusOne) <=>
           \/ lp.tp + lp.fp = 0
           \/ lp.tp + lp.fn = 0
           \/ (lp.tp + lp.fp # 0 /\ lp.tp = 0)
           \/ (lp.tp + lp.fn # 0 /\ lp.tp = 0)
    /\ (lp = FreshPerformance) =>
           /\ NumEq(precision(lp), MinusOne)
           /\ NumEq(recall(lp), MinusOne)
           /\ NumEq(f1(lp), MinusOne)

\* a record with detections and gold entities but no true positive:
\* precision and recall are 0, not -1, and f1 is -1
C6_Witness ==
    /\ lp.tp = 0 /\ lp.fp > 0 /\ lp.fn > 0
    /\ NumEq(precision(lp), Zero)
    /\ NumEq(recall(lp), Zero)
    /\ NumEq(f1(lp), MinusOne)

\* --------------------------------------------------------------------------
\* Properties of get_top_tfidf_dimensions (SpecTfidf)
\* --------------------------------------------------------------------------

\* a step in which get_top_tfidf_dimensions computes its selection
TfidfComputed == ~tfidf_dims.set /\ tfidf_dims'.set

\* a step in which get_top_tfidf_dimensions runs without a cached selection
TfidfAttempted ==
    /\ ~tfidf_dims.set
    /\ lm_error = "none"
    /\ (tfidf_dims'.set \/ lm_error' # "none")

FpOnly(l) == l \in fp_labels /\ l \notin tp_labels
TpOnly(l) == l \in tp_labels /\ l \notin fp_labels
InBoth(l) == l \in tp_labels /\ l \in fp_labels
InNeither(l) == l \notin tp_labels /\ l \notin fp_labels

\* C7: with tps > 0, fps > 0 and tps # fps, a dimension only in the
\* false-positive set with frequency f scores f * (tps/fps) * 1; a dimension in
\* both sets scores exactly 0, whatever its frequency and whatever tps and fps.
C7_WeightedScore ==
    [][TfidfComputed =>
        \A i \in DOMAIN tfidf_df' :
            LET l == tfidf_df'[i].l
                score == tfidf_df'[i].score
            IN  /\ (tps > 0 /\ fps > 0 /\ tps # fps /\ FpOnly(l))
                       => NumEq(score, Num(label2freq[l] * tps, fps))
                /\ InBoth(l) => NumEq(score, Zero)]_vars

\* the selection was computed with tps = 2 and fps = 1 over a dimension of
\* frequency 2 only in the false-positive set (score 4) and a dimension in
\* both sets (score 0)
C7_Witness ==
    /\ tfidf_dims.set
    /\ tps = 2 /\ fps = 1
    /\ \E i, j \in DOMAIN tfidf_df :
        /\ FpOnly(tfidf_df[i].l)
        /\ label2freq[tfidf_df[i].l] = 2
        /\ NumEq(tfidf_df[i].score, Num(4, 1))
        /\ InBoth(tfidf_df[j].l)
        /\ NumEq(tfidf_df[j].score, Zero)

\* C8: a registered dimension (frequency >= 1) in neither the true-positive
\* nor the false-positive set is scored 0 or excluded by
\* get_top_tfidf_dimensions, and the selection completes without an error.
C8_NeitherDimensionHandled ==
    [][(TfidfAttempted /\ \E l \in DOMAIN label2freq : InNeither(l)) =>
        /\ lm_error' = "none"
        /\ tfidf_dims'.set
        /\ \A i \in DOMAIN tfidf_df' :
               InNeither(tfidf_df'[i].l) => NumEq(tfidf_df'[i].score, Zero)]_vars

\* C9, as claimed: whenever tps > fps > 0, a dimension only in the
\* false-positive set scores no more than its raw frequency, hence no more
\* than a dimension only in the true-positive set of the same frequency.
C9_FpOnlyDownWeighted ==
    [][(TfidfComputed /\ tps > fps /\ fps > 0) =>
        \A i \in DOMAIN tfidf_df' :
            FpOnly(tfidf_df'[i].l) =>
                /\ NumLeq(tfidf_df'[i].score, Num(label2freq[tfidf_df'[i].l], 1))
                /\ \A j \in DOMAIN tfidf_df' :
                       (TpOnly(tfidf_df'[j].l)
                        /\ label2freq[tfidf_df'[j].l] = label2freq[tfidf_df'[i].l])
                           => NumLeq(tfidf_df'[i].score, tfidf_df'[j].score)]_vars

\* C9, amended: whenever tps > fps > 0, a dimension only in the
\* false-positive set scores f * tps/fps, strictly more than its raw frequency
\* f, hence strictly more than a dimension only in the true-positive set of
\* the same frequency (whose score is f).
C9_FpOnlyUpWeighted ==
    [][(TfidfComputed /\ tps > fps /\ fps > 0) =>
        \A i \in DOMAIN tfidf_df' :
            FpOnly(tfidf_df'[i].l) =>
                /\ ~NumLeq(tfidf_df'[i].score, Num(label2freq[tfidf_df'[i].l], 1))
                /\ \A j \in DOMAIN tfidf_df' :
                       (TpOnly(tfidf_df'[j].l)
                        /\ label2freq[tfidf_df'[j].l] = label2freq[tfidf_df'[i].l])
                           => /\ NumEq(tfidf_df'[j].score, Num(label2freq[tfidf_df'[j].l], 1))
                              /\ ~NumLeq(tfidf_df'[i].score, tfidf_df'[j].score)]_vars

\* the selection was computed with tps = 2 > fps = 1 over a dimension only in
\* the false-positive set and one only in the true-positive set, both of
\* frequency 1: scores 2 and 1
C9_Witness ==
    /\ tfidf_dims.set
    /\ tps = 2 /\ fps = 1
    /\ \E i, j \in DOMAIN tfidf_df :
        /\ FpOnly(tfidf_df[i].l) /\ TpOnly(tfidf_df[j].l)
        /\ label2freq[tfidf_df[i].l] = 1 /\ label2freq[tfidf_df[j].l] = 1
        /\ NumEq(tfidf_df[i].score, Num(2, 1))
        /\ NumEq(tfidf_df[j].score, Num(1, 1))

\* --------------------------------------------------------------------------
\* Properties of load_data (SpecLoad)
\* --------------------------------------------------------------------------

\* the mentions get_anns_by_label returns for the target label
TargetMentions ==
    get_anns_by_label(annotations, phenotypes, concept2label, lm_label, {})

\* a step of load_data that emits the row of mention ld_anns[ld_idx]
RowEmitted == ld_pc = "mentions" /\ ld_idx' = ld_idx + 1

\* the step in which load_data returns
LoadReturns == ld_pc # "returned" /\ ld_pc' = "returned"

\* C10: load_data emits exactly one training row per mention that
\* get_anns_by_label returns for the target label, in a document that has a
\* gold file (none otherwise); the label of the row is 1 iff, when the mention
\* is processed, a still-unmatched gold entity of the target label overlaps
\* it (g.overlap(a)), else 0.  One gold stroke and one mapped mention on the
\* same span give one row labelled 1; a mention on a disjoint span gives one
\* row labelled 0.
C10_OneRowPerMention ==
    [][/\ RowEmitted =>
            LET a == ld_anns[ld_idx]
                hit == \E i \in DOMAIN gold_entities :
                           /\ gold_entities[i].id \in Elems(not_matched_gds)
                           /\ label(gold_entities[i]) = lm_label
                           /\ overlap(gold_entities[i], a)
            IN  /\ Y' = Append(Y, << IF hit THEN 1 ELSE 0 >>)
                /\ Len(X') = Len(X) + 1
       /\ (~RowEmitted /\ ld_pc' # "raised") => (Y' = Y /\ X' = X)
       /\ LoadReturns =>
            /\ Len(Y') = (IF has_gold THEN Len(TargetMentions) ELSE 0)
            /\ Len(X') = Len(Y')
            /\ (/\ has_gold
                /\ Len(gold_entities) = 1 /\ label(gold_entities[1]) = lm_label
                /\ Len(TargetMentions) = 1 /\ Len(annotations) = 1
                /\ TargetMentions[1] = annotations[1])
               => /\ (/\ annotations[1].start = gold_entities[1].start
                      /\ annotations[1].end = gold_entities[1].end) => Y' = << <<1>> >>
                  /\ (\/ annotations[1].end < gold_entities[1].start
                      \/ gold_entities[1].end < annotations[1].start) => Y' = << <<0>> >>
      ]_vars

\* load_data has returned two rows for a document with a gold file: the
\* first mention matched a gold entity, the second did not
C10_Witness ==
    /\ ld_pc = "returned"
    /\ has_gold
    /\ Len(TargetMentions) = 2
    /\ Y = << <<1>>, <<0>> >>
    /\ Len(X) = 2

\* the intervals of x and y intersect: an endpoint of one of them lies in
\* the closed interval of the other
Intersects(x, y) == x.start <= y.end /\ y.start <= x.end

\* load_data has returned for a document with a single gold entity of the
\* target label and two mentions of the target label whose spans both
\* intersect the span of that entity (a mention lying strictly inside the
\* entity, or strictly containing it, included)
TwoMentionsOneGold ==
    /\ ld_pc = "returned"
    /\ has_gold
    /\ Len(gold_entities) = 1
    /\ label(gold_entities[1]) = lm_label
    /\ Len(ld_anns) = 2
    /\ \A i \in 1..2 : Intersects(ld_anns[i], gold_entities[1])

\* C11: when two detected mentions of the target label both overlap the same
\* single gold entity of a document, load_data produces two training rows,
\* exactly one of them labelled 1, records exactly one multiple-true-positive
\* increment (mtp = 1) and no false negative.
C11_DuplicateMatchCounted ==
    TwoMentionsOneGold =>
        /\ Len(Y) = 2 /\ Len(X) = 2
        /\ Cardinality({i \in 1..2 : Y[i] = <<1>>}) = 1
        /\ multiple_true_positives = 1
        /\ false_negatives = 0

\* --------------------------------------------------------------------------
\* Properties of decision_tree_learning and predict_use_model (SpecLearn)
\* --------------------------------------------------------------------------

\* no classifier file exists, or there are fewer examples than the minimum
PredictFallback == ~isfile(ml_model_file) \/ Len(pr_X) < min_sample_size

\* C12: predict_use_model predicts positive for every example whenever no
\* model file exists or the example count is below the minimum sample size,
\* whatever the features: on that path every row labelled 1 adds one true
\* positive, every row labelled 0 adds one false positive, and the scoring
\* of the examples adds no false negative.
C12_FallbackPredictsPositive ==
    [][/\ (pr_pc = "idle" /\ pr_pc' # "idle" /\ PredictFallback)
            => /\ pr_pc' = "scoring"
               /\ P' = [i \in 1..Len(pr_X) |-> 1]
       /\ (pr_pc = "scoring" /\ pr_idx' = pr_idx + 1 /\ PredictFallback)
            => /\ lp'.tp = lp.tp + (IF pr_Y[pr_idx] = <<1>> THEN 1 ELSE 0)
               /\ lp'.fp = lp.fp + (IF pr_Y[pr_idx] = <<0>> THEN 1 ELSE 0)
               /\ lp'.fn = lp.fn
      ]_vars

\* C13: decision_tree_learning skips fitting and deletes an existing output
\* file when, and only when, the number of training examples is below the
\* minimum sample size; with as many examples as the minimum, or more, it
\* fits a classifier and persists it to the output file.  The
\* insufficient-data path never raises.
C13_SkipsOnlyBelowMinimum ==
    (learner = "decision_tree") =>
        /\ learn_pc # "TypeError"
        /\ (learn_pc = "skipped") <=> (Len(pr_X) < min_sample_size)
        /\ (learn_pc = "skipped") => ~isfile(ml_model_file)
        /\ (Len(pr_X) >= min_sample_size) =>
               /\ learn_pc = "fitted"
               /\ output_given => ml_model_file = "fitted"

\* --------------------------------------------------------------------------
\* Properties of the calls on a CustomisedRecoginiser (SpecDoc)
\* --------------------------------------------------------------------------

\* x strictly contains y
StrictlyContains(x, y) ==
    x.start <= y.start /\ x.end >= y.end /\ ~(x.start = y.start /\ x.end = y.end)

IsConcept(a) == a.id[1] = "cui"
IsPhenotype(a) == a.id[1] = "phe"

\* C14: get_combined_anns returns all mapped-label annotations plus exactly
\* the phenotype annotations that overlap no mapped-label annotation; a
\* phenotype whose interval intersects that of a mapped-label annotation is
\* dropped whichever of the two is larger, also when the phenotype strictly
\* contains the mapped-label span.
C14_CombinedDropsIntersecting ==
    (q_op = "get_combined_anns") =>
        LET mapped == get_mapped_labels(annotations, concept2label)
            free(ann) == ~\E k \in DOMAIN mapped : Intersects(ann, mapped[k])
        IN  q_res = Returned(mapped \o SelectSeq(get_customised_phenotypes(phenotypes), free))

\* C15: get_anns_by_label keeps the larger span: in the list it returns no
\* phenotype mention is strictly contained in a returned concept mention and
\* no returned concept mention is strictly contained in a returned phenotype
\* mention.
C15_NoContainedSpanReturned ==
    (q_op = "get_anns_by_label") =>
        \A i, j \in DOMAIN q_res.value :
            (IsConcept(q_res.value[i]) /\ IsPhenotype(q_res.value[j])) =>
                /\ ~StrictlyContains(q_res.value[i], q_res.value[j])
                /\ ~StrictlyContains(q_res.value[j], q_res.value[i])

\* the position of the first sentence, in document order, that ann overlaps
\* (0 when there is none)
OwnSentence(ann) ==
    LET S == {i \in DOMAIN sentences : Intersects(ann, sentences[i])}
    IN  IF S = {} THEN 0 ELSE CHOOSE i \in S : \A j \in S : i <= j

\* C16: for a mention that has a sentence, get_prior_anns returns exactly
\* the concept and phenotype mentions that overlap the mention's own
\* sentence (the first sentence in document order that the mention
\* overlaps) and that do not overlap the mention; the mention itself is
\* never part of its own context.
C16_ContextOfOwnSentence ==
    (q_op = "get_prior_anns" /\ q_res.kind = "value") =>
        LET ann == q_arg[1]
            sent == sentences[OwnSentence(ann)]
            keep(a) == Intersects(a, sent) /\ ~Intersects(a, ann)
        IN  /\ OwnSentence(ann) # 0
            /\ q_res.value = [umls |-> SelectSeq(annotations, keep),
                              phenotype |-> SelectSeq(phenotypes, keep)]
            /\ ann \notin Elems(q_res.value.umls) \cup Elems(q_res.value.phenotype)

\* the mention the last call was made on overlaps no sentence
NoSentence == q_arg # <<>> /\ \A i \in DOMAIN sentences : ~Intersects(q_arg[1], sentences[i])

\* C17: the absence of a sentence is handled by a sentinel, not by an
\* exception: for a mention that overlaps no sentence, get_ann_sentence
\* returns none, get_same_sentence_anns completes, and get_prior_anns
\* completes with an empty context instead of raising.
C17_NoSentenceNoException ==
    /\ (q_op = "get_ann_sentence" /\ NoSentence) => q_res = ReturnedNone
    /\ (q_op = "get_same_sentence_anns" /\ NoSentence) => q_res = ReturnedNone
    /\ (q_op = "get_prior_anns" /\ NoSentence)
           => q_res = Returned([umls |-> <<>>, phenotype |-> <<>>])

\* the labels the mapping table associates with concept id c
LabelsOf(c) ==
    {concept_mapping[i].t : i \in
        {i \in DOMAIN concept_mapping :
            \E k \in DOMAIN concept_mapping[i].texts : concept_mapping[i].texts[k].cui = c}}

\* C20: get_mapped_labels emits, for every concept mention whose concept id
\* is in the mapping and every label in that concept id's set of labels,
\* exactly one derived annotation with that label, the mention's span and
\* id, and negated = (negation = "Negated"); it emits nothing for unmapped
\* concept ids; this holds for any mapping table, also one in which a
\* concept id appears in several entries under the same label.
C20_OneDerivedPerLabel ==
    (q_op = "get_mapped_labels") =>
        LET res == q_res.value
            derived(a, t) ==
                {k \in DOMAIN res :
                    /\ res[k].id = a.id /\ res[k].type = t
                    /\ res[k].start = a.start /\ res[k].end = a.end
                    /\ res[k].negated = (a.negation = "Negated")}
        IN  /\ \A i \in DOMAIN annotations : \A t \in Types :
                   Cardinality(derived(annotations[i], t)) =
                       (IF t \in LabelsOf(annotations[i].cui) THEN 1 ELSE 0)
            /\ \A k \in DOMAIN res : \E i \in DOMAIN annotations :
                   k \in derived(annotations[i], res[k].type)

\* C11, as the code has it: when two detected mentions of the target label
\* both overlap the same single gold entity of a document, load_data
\* produces two training rows, at most one of them labelled 1, and no
\* multiple-true-positive increment (mtp = 0); the row labelled 1 is that of
\* the first mention that load_data's test g.overlap(a) accepts (the start
\* or the end of the gold span lies inside the mention's span), and the
\* false-negative count is 0 when there is such a row and 1 when there is
\* none.
C11_DuplicateMatchNotCounted ==
    TwoMentionsOneGold =>
        LET g == gold_entities[1]
            labelled_one == {i \in 1..2 : Y[i] = <<1>>}
            first_accepted == {i \in 1..2 :
                                  /\ overlap(g, ld_anns[i])
                                  /\ \A j \in 1..(i - 1) : ~overlap(g, ld_anns[j])}
        IN  /\ Len(X) = 2 /\ Len(Y) = 2
            /\ \A i \in 1..2 : Y[i] \in {<<0>>, <<1>>}
            /\ Cardinality(labelled_one) <= 1
            /\ labelled_one = first_accepted
            /\ multiple_true_positives = 0
            /\ false_negatives = 1 - Cardinality(labelled_one)

\* load_data has returned two rows for two mentions on one gold entity, the
\* first mention lying strictly inside the entity and the second matched
C11_Witness ==
    /\ TwoMentionsOneGold
    /\ gold_entities[1].start < ld_anns[1].start
    /\ ld_anns[1].end < gold_entities[1].end
    /\ Y = << <<0>>, <<1>> >>
    /\ multiple_true_positives = 0
    /\ false_negatives = 0

\* --------------------------------------------------------------------------
\* Properties of encode_ann (SpecEncode)
\* --------------------------------------------------------------------------

\* C18: encode_ann returns a vector of length L + 2*S, S the number of
\* selected top-k context dimensions, L = 1 in single-index mode (the index
\* of the mention's label in the label-dimension list, -1 if unseen) or the
\* number of label dimensions in one-hot mode (with at most one 1); for the
\* i-th selected dimension, slot L+2i is 1 iff a context mention's string
\* equals the dimension, and slot L+2i+1 is always 0.
C18_EncodedVector ==
    (enc_pc = "encoded") =>
        LET dims == tfidf_dims.dims
            S == Len(dims)
            L == IF lbl_one_dimension THEN 1 ELSE Len(label_dimensions)
            lab == get_ann_dim_label(enc_ann)
            ctx == {get_ann_dim_label(enc_ctx[i]) : i \in DOMAIN enc_ctx}
        IN  /\ Len(enc_res) = L + 2 * S
            /\ lbl_one_dimension =>
                   IF \E i \in DOMAIN label_dimensions : label_dimensions[i] = lab
                   THEN /\ enc_res[1] \in 0..(Len(label_dimensions) - 1)
                        /\ label_dimensions[enc_res[1] + 1] = lab
                   ELSE enc_res[1] = -1
            /\ (~lbl_one_dimension) =>
                   /\ \A i \in 1..L :
                          enc_res[i] = (IF label_dimensions[i] = lab THEN 1 ELSE 0)
                   /\ Cardinality({i \in 1..L : enc_res[i] = 1}) <= 1
            /\ \A i \in 0..(S - 1) :
                   /\ enc_res[L + 2 * i + 1] = (IF dims[i + 1] \in ctx THEN 1 ELSE 0)
                   /\ enc_res[L + 2 * i + 2] = 0

\* a mention encoded in one-hot mode over two label dimensions and two
\* selected context dimensions, the first present twice in its context
C18_Witness ==
    /\ enc_pc = "encoded"
    /\ ~lbl_one_dimension
    /\ Len(label_dimensions) = 2
    /\ Len(tfidf_dims.dims) = 2
    /\ enc_ctx = <<[str |-> "a", negation |-> "Affirmed"], [str |-> "a", negation |-> "Affirmed"]>>
    /\ enc_res = <<0, 1, 1, 0, 0, 0>>

\* C19: after any sequence of add_label_dimension and add_context_dimension
\* calls the label-dimension list holds each lower-cased value it was called
\* with exactly once, the context-dimension list holds each lower-cased
\* value exactly once and has the keys of the frequency table as its
\* elements, and each frequency is the number of add_context_dimension
\* calls made with that value in any case, hence at least 1.
NoDuplicates(seq) == \A i, j \in DOMAIN seq : seq[i] = seq[j] => i = j

C19_DimensionTables ==
    /\ NoDuplicates(label_dimensions)
    /\ Elems(label_dimensions) = dim_calls.label
    /\ NoDuplicates(context_dimensions)
    /\ Elems(context_dimensions) = DOMAIN label2freq
    /\ DOMAIN label2freq = DOMAIN dim_calls.context
    /\ \A v \in DOMAIN label2freq :
           label2freq[v] = dim_calls.context[v] /\ label2freq[v] >= 1

\* "a" registered as a label once after calls in both cases are possible,
\* and "b" counted twice in the context table next to "a" counted once
C19_Witness ==
    /\ label_dimensions = <<"a">>
    /\ context_dimensions = <<"a", "b">>
    /\ label2freq = [x \in {"a", "b"} |-> IF x = "b" THEN 2 ELSE 1]
    /\ dim_calls.context = label2freq

\* the gold entities of the target label, by position in the gold document
TargetGold == {i \in DOMAIN gold_entities : label(gold_entities[i]) = lm_label}

\* the training rows labelled 1
PositiveRows == {i \in DOMAIN Y : Y[i] = <<1>>}

\* C21: when load_data returns for a document with a gold file, the number of
\* gold entities of the target label is the number of rows labelled 1 plus
\* the multiple-true-positive count plus the false-negative count; fns is the
\* number of target-label gold entities that no returned mention matched
\* (g.overlap(a)); the rows are those of the mentions only, so an unmatched
\* gold entity adds no row.  One gold entity and one mention that does not
\* overlap it give fns = 1 and one row labelled 0.
C21_GoldConservation ==
    (ld_pc = "returned" /\ has_gold) =>
        LET unmatched == {i \in TargetGold :
                             \A k \in DOMAIN ld_anns : ~overlap(gold_entities[i], ld_anns[k])}
        IN  /\ Cardinality(TargetGold)
                 = Cardinality(PositiveRows) + multiple_true_positives + false_negatives
            /\ false_negatives = Cardinality(unmatched)
            /\ Len(Y) = Len(ld_anns)
            /\ Len(X) = Len(ld_anns)
            /\ (/\ Len(gold_entities) = 1 /\ Cardinality(TargetGold) = 1
                /\ Len(ld_anns) = 1
                /\ (\/ ld_anns[1].end < gold_entities[1].start
                    \/ gold_entities[1].end < ld_anns[1].start))
               => (false_negatives = 1 /\ Y = << <<0>> >>)

\* load_data has returned for one gold entity of the target label and one
\* mention that does not overlap it: one row labelled 0, one false negative
C21_Witness ==
    /\ ld_pc = "returned"
    /\ has_gold
    /\ Len(gold_entities) = 1
    /\ Cardinality(TargetGold) = 1
    /\ Len(ld_anns) = 1
    /\ ld_anns[1].end < gold_entities[1].start
    /\ Y = << <<0>> >>
    /\ false_negatives = 1
    /\ multiple_true_positives = 0

\* C22: after predict_use_model on a fresh performance record, TP + FN is
\* the number of rows labelled 1 plus fns plus multiple_tps, whether a model
\* file exists or the all-positive fallback is used.
C22_MissedGoldReachesRecord ==
    (pr_pc = "returned") =>
        lp.tp + lp.fn
            = Cardinality({i \in DOMAIN pr_Y : pr_Y[i] = <<1>>}) + pr_fns + pr_mtp

\* a step in which encode_ann returns a vector
EncodeReturns ==
    /\ enc_pc' = "encoded"
    /\ <<enc_ann, enc_ctx, enc_res, tfidf_dims>>' # <<enc_ann, enc_ctx, enc_res, tfidf_dims>>

\* C23: the selection of context dimensions respects the current bound:
\* once max_dimensions is k, also on a LabelModel whose selection was
\* computed under another bound, encode_ann uses the k highest-scoring
\* context dimensions (all of them when there are fewer than k), and the
\* context part of the vector it returns has at most 2*k slots.
C23_SelectionRespectsBound ==
    [][EncodeReturns =>
        LET dims == tfidf_dims'.dims
            L == IF lbl_one_dimension THEN 1 ELSE Len(label_dimensions)
            score(l) == tfidf_score(label2freq[l], l \in tp_labels, l \in fp_labels,
                                    tps, fps)
        IN  /\ Len(dims) = (IF max_dimensions < Len(context_dimensions)
                            THEN max_dimensions ELSE Len(context_dimensions))
            /\ \A i \in DOMAIN dims : \A l \in DOMAIN label2freq :
                   l \notin Elems(dims) => NumLeq(score(l), score(dims[i]))
            /\ Len(enc_res') - L <= 2 * max_dimensions]_vars

\* --------------------------------------------------------------------------
\* Properties of get_anns_by_label on several phenotypes (SpecSelect)
\* --------------------------------------------------------------------------

\* the mentions get_anns_by_label(l) puts in smaller_to_remove
RemovedAsSmaller(l) ==
    Elems(select_phenotypes(phenotypes, 1,
                            selected_concepts(annotations, concept2label, l, {}),
                            <<>>, <<>>, l, {}).smaller)

\* C24: get_anns_by_label loses no mention without a replacement: every
\* concept or phenotype mention of the label's polarity that is removed as a
\* smaller span is strictly contained in a phenotype mention present in the
\* returned list.
C24_RemovedHasContainer ==
    (q_op = "get_anns_by_label") =>
        \A m \in RemovedAsSmaller(q_arg[1]) :
            /\ m \notin Elems(q_res.value)
            /\ \E i \in DOMAIN q_res.value :
                   /\ IsPhenotype(q_res.value[i])
                   /\ StrictlyContains(q_res.value[i], m)

====
